---------------------------- MODULE Spec2Model ----------------------------
(***************************************************************************)
(* JSON to S-expression converter: tokenizer and recursive-descent parser  *)
(* (src/src/parser.c), tree release (src/src/memory.c), S-expression       *)
(* writer (sexpr_output.c, kept as src/unnamed/part_000) and the driver    *)
(* (src/src/main.c), for the invocation `echo INPUT | json_to_sexpr`       *)
(* that scripts/test.sh uses: input on stdin, output on stdout.            *)
(*                                                                         *)
(* Text is a sequence of one-character strings.  C indices are kept        *)
(* 0-based: input[pos] of the C code is CharAt(inp, pos).                  *)
(***************************************************************************)
EXTENDS Integers, Sequences, FiniteSets, TLC

-----------------------------------------------------------------------------
(* Bounds of the model, and the program's constants.                       *)

\* Every text over Chars of at most MaxLen characters is an input.
MaxLen == 3

MAX_TOKEN_SIZE == 1024

MAX_DEPTH == 64

NULL == 0

\* What CharAt answers at the terminating NUL of the C string.
NUL == "NUL"

\* The backspace character (the '\b' of C), which TLA+ cannot write.
BS == "BS"

-----------------------------------------------------------------------------
(* Characters.                                                             *)

Digits == <<"0", "1", "2", "3", "4", "5", "6", "7", "8", "9">>

isdigit(c) == \E i \in 1..10 : Digits[i] = c

DigitVal(c) == (CHOOSE i \in 1..10 : Digits[i] = c) - 1

CharAt(inp, pos) == IF pos < Len(inp) THEN inp[pos + 1] ELSE NUL

RECURSIVE Pow10(_)
Pow10(n) == IF n <= 0 THEN 1 ELSE 10 * Pow10(n - 1)

-----------------------------------------------------------------------------
(* Tokens (token_type_t, token_t).                                         *)

TOKEN_LBRACE   == "TOKEN_LBRACE"
TOKEN_RBRACE   == "TOKEN_RBRACE"
TOKEN_LBRACKET == "TOKEN_LBRACKET"
TOKEN_RBRACKET == "TOKEN_RBRACKET"
TOKEN_COLON    == "TOKEN_COLON"
TOKEN_COMMA    == "TOKEN_COMMA"
TOKEN_STRING   == "TOKEN_STRING"
TOKEN_NUMBER   == "TOKEN_NUMBER"
TOKEN_TRUE     == "TOKEN_TRUE"
TOKEN_FALSE    == "TOKEN_FALSE"
TOKEN_NULL     == "TOKEN_NULL"
TOKEN_EOF      == "TOKEN_EOF"
TOKEN_ERROR    == "TOKEN_ERROR"

\* A double, as the decimal sign * mant * 10^exp with mant not divisible by
\* 10 (zero is mant = 0, exp = 0 and keeps its sign, as -0.0 does).
Zero == [neg |-> FALSE, mant |-> 0, exp |-> 0]

token_t(type, value, number_value) ==
    [type |-> type, value |-> value, number_value |-> number_value]

\* What a tokenizer function hands back: the parser's cursor after it, the
\* token, and the lines it printed on stderr.
Lexed(p, tok, err) == [parser |-> p, token |-> tok, err |-> err]

Advance(p, n) == [p EXCEPT !.pos = @ + n, !.column = @ + n]

-----------------------------------------------------------------------------
(* atof: the longest prefix of the text that is a decimal number.          *)

RECURSIVE DigitRun(_, _)
\* The end (exclusive, 1-based index) of the run of digits starting at i.
DigitRun(s, i) ==
    IF i <= Len(s) /\ isdigit(s[i]) THEN DigitRun(s, i + 1) ELSE i

RECURSIVE DigitsValue(_, _, _)
\* The value of the digits s[i..j-1].
DigitsValue(s, i, j) ==
    IF i >= j THEN 0 ELSE DigitsValue(s, i, j - 1) * 10 + DigitVal(s[j - 1])

RECURSIVE Normalise(_, _, _)
Normalise(neg, mant, exp) ==
    IF mant = 0 THEN [neg |-> neg, mant |-> 0, exp |-> 0]
    ELSE IF mant % 10 = 0 THEN Normalise(neg, mant \div 10, exp + 1)
    ELSE [neg |-> neg, mant |-> mant, exp |-> exp]

\* The exponent digits are s[eSig..eEnd-1]; a marker with no digit after it
\* is not part of the number.
AtofExponent(s, neg, mant, nFrac, eSig, eEnd) ==
    Normalise(neg, mant,
              (IF eEnd > eSig
               THEN (IF s[eSig - 1] = "-" THEN -1 ELSE 1) * DigitsValue(s, eSig, eEnd)
               ELSE 0) - nFrac)

\* The mantissa is mant / 10^nFrac and ends before index fEnd.
AtofMantissa(s, neg, mant, nFrac, fEnd) ==
    LET hasE == fEnd <= Len(s) /\ s[fEnd] \in {"e", "E"}
        eSig == IF hasE /\ fEnd + 1 <= Len(s) /\ s[fEnd + 1] \in {"-", "+"}
                THEN fEnd + 2 ELSE fEnd + 1
    IN  AtofExponent(s, neg, mant, nFrac, eSig,
                     IF hasE THEN DigitRun(s, eSig) ELSE eSig)

\* The integer digits are s[i0..iEnd-1], the fraction digits s[iEnd+1..fEnd-1].
AtofDigits(s, neg, i0, iEnd, fEnd) ==
    LET nFrac == IF fEnd > iEnd THEN fEnd - (iEnd + 1) ELSE 0
    IN  IF iEnd = i0 /\ nFrac = 0
        THEN Zero  \* no digit at all: nothing is converted
        ELSE AtofMantissa(s, neg,
                          DigitsValue(s, i0, iEnd) * Pow10(nFrac)
                              + DigitsValue(s, iEnd + 1, fEnd),
                          nFrac, fEnd)

AtofInteger(s, neg, i0, iEnd) ==
    AtofDigits(s, neg, i0, iEnd,
               IF iEnd <= Len(s) /\ s[iEnd] = "." THEN DigitRun(s, iEnd + 1) ELSE iEnd)

AtofSigned(s, neg, i0) == AtofInteger(s, neg, i0, DigitRun(s, i0))

\* The greatest power of ten a double holds (float.h).
DBL_MAX_10_EXP == 308

\* What atof answers for a number beyond the doubles.
HUGE_VAL(neg) == [neg |-> neg, mant |-> 1, exp |-> DBL_MAX_10_EXP + 1]

\* An integer part of more than DBL_MAX_10_EXP + 1 digits, the first of them
\* not 0, and no negative exponent: the number exceeds every double.
AtofOverflows(s, i0) ==
    /\ Len(s) > i0 + DBL_MAX_10_EXP
    /\ s[i0] # "0"
    /\ \A i \in i0..(i0 + DBL_MAX_10_EXP + 1) : isdigit(s[i])
    /\ \A i \in i0..(Len(s) - 1) : ~(s[i] \in {"e", "E"} /\ s[i + 1] = "-")

atof(s) ==
    IF AtofOverflows(s, IF Len(s) >= 1 /\ s[1] \in {"-", "+"} THEN 2 ELSE 1)
    THEN HUGE_VAL(Len(s) >= 1 /\ s[1] = "-")
    ELSE AtofSigned(s, Len(s) >= 1 /\ s[1] = "-",
                    IF Len(s) >= 1 /\ s[1] \in {"-", "+"} THEN 2 ELSE 1)

-----------------------------------------------------------------------------
(* Tokenizer (src/src/parser.c).                                           *)

RECURSIVE tokenizer_skip_blanks(_, _)
\* A variant that does not take the line feed for whitespace.
tokenizer_skip_blanks(p, inp) ==
    IF p.pos < p.length /\ CharAt(inp, p.pos) \in {" ", "\t", "\r"}
    THEN tokenizer_skip_blanks(Advance(p, 1), inp)
    ELSE p

RECURSIVE tokenizer_skip_whitespace(_, _)
tokenizer_skip_whitespace(p, inp) ==
    IF p.pos < p.length
    THEN IF CharAt(inp, p.pos) \in {" ", "\t", "\r"}
         THEN tokenizer_skip_whitespace(Advance(p, 1), inp)
         ELSE IF CharAt(inp, p.pos) = "\n"
         THEN tokenizer_skip_whitespace(
                  [p EXCEPT !.pos = @ + 1, !.line = @ + 1, !.column = 1], inp)
         ELSE p
    ELSE p

\* The text a recognised escape stands for; an unrecognised one keeps its
\* backslash, and its character too while the buffer has room.
Unescape(escaped, value_pos) ==
    CASE escaped = "\"" -> <<"\"">>
      [] escaped = "\\" -> <<"\\">>
      [] escaped = "/"  -> <<"/">>
      [] escaped = "b"  -> <<BS>>
      [] escaped = "f"  -> <<"\f">>
      [] escaped = "n"  -> <<"\n">>
      [] escaped = "r"  -> <<"\r">>
      [] escaped = "t"  -> <<"\t">>
      [] OTHER -> IF value_pos + 1 < MAX_TOKEN_SIZE - 1
                  THEN <<"\\", escaped>> ELSE <<"\\">>

RECURSIVE StringLoop(_, _, _)
\* The while loop of tokenizer_parse_string_literal: value is token.value so
\* far (value_pos is its length).
StringLoop(p, inp, value) ==
    IF p.pos < p.length /\ Len(value) < MAX_TOKEN_SIZE - 1
    THEN IF CharAt(inp, p.pos) = "\""
         THEN [parser |-> Advance(p, 1), value |-> value,
               found_closing_quote |-> TRUE]
         ELSE IF CharAt(inp, p.pos) = "\\" /\ p.pos + 1 < p.length
         THEN StringLoop(Advance(p, 2), inp,
                         value \o Unescape(CharAt(inp, p.pos + 1), Len(value)))
         ELSE StringLoop(Advance(p, 1), inp, Append(value, CharAt(inp, p.pos)))
    ELSE [parser |-> p, value |-> value, found_closing_quote |-> FALSE]

\* parser.c 96-105: the token, once the loop r has ended.
StringToken(r) ==
    IF ~r.found_closing_quote
    THEN Lexed(r.parser, token_t(TOKEN_ERROR, r.value, Zero), <<"Unterminated string">>)
    ELSE Lexed(r.parser, token_t(TOKEN_STRING, r.value, Zero), <<>>)

tokenizer_parse_string_literal(p, inp) ==
    StringToken(StringLoop(Advance(p, 1), inp, <<>>))

\* The numeric literal so far: the cursor and token.value.
NumSoFar(p, value) == [parser |-> p, value |-> value]

RECURSIVE NumDigits(_, _)
\* while (pos < length && isdigit(input[pos])): a digit is stored only while
\* the buffer has room, and is consumed either way.
NumDigits(r, inp) ==
    IF r.parser.pos < r.parser.length /\ isdigit(CharAt(inp, r.parser.pos))
    THEN NumDigits(NumSoFar(Advance(r.parser, 1),
                            IF Len(r.value) < MAX_TOKEN_SIZE - 1
                            THEN Append(r.value, CharAt(inp, r.parser.pos))
                            ELSE r.value), inp)
    ELSE r

\* One character consumed, and stored while the buffer has room.
NumTake(r, inp) ==
    NumSoFar(Advance(r.parser, 1),
             IF Len(r.value) < MAX_TOKEN_SIZE - 1
             THEN Append(r.value, CharAt(inp, r.parser.pos)) ELSE r.value)

\* parser.c 144-159.
NumFraction(r, inp) ==
    IF r.parser.pos < r.parser.length /\ CharAt(inp, r.parser.pos) = "."
    THEN NumDigits(NumTake(r, inp), inp)
    ELSE r

\* parser.c 170-185: the optional sign and the digits of the exponent.
NumExponentDigits(e, inp) ==
    NumDigits(IF e.parser.pos < e.parser.length
                 /\ CharAt(inp, e.parser.pos) \in {"+", "-"}
              THEN NumTake(e, inp) ELSE e, inp)

\* parser.c 161-186.
NumExponent(r, inp) ==
    IF r.parser.pos < r.parser.length /\ CharAt(inp, r.parser.pos) \in {"e", "E"}
    THEN NumExponentDigits(NumTake(r, inp), inp)
    ELSE r

\* parser.c 188-190.
NumToken(n) == Lexed(n.parser, token_t(TOKEN_NUMBER, n.value, atof(n.value)), <<>>)

\* A variant with no leading-zero test: '0' is a digit as any other.
NumIntegerAnyDigits(r, inp) ==
    NumToken(NumExponent(NumFraction(NumDigits(r, inp), inp), inp))

\* parser.c 120-142: r is the literal after its optional '-'.
NumInteger(r, inp) ==
    IF r.parser.pos < r.parser.length /\ CharAt(inp, r.parser.pos) = "0"
    THEN IF r.parser.pos + 1 < r.parser.length
            /\ isdigit(CharAt(inp, r.parser.pos + 1))
         THEN Lexed(Advance(r.parser, 1),
                    token_t(TOKEN_ERROR, Append(r.value, "0"), Zero),
                    <<"Invalid number with leading zero">>)
         ELSE NumToken(NumExponent(NumFraction(
                  NumSoFar(Advance(r.parser, 1), Append(r.value, "0")), inp), inp))
    ELSE NumToken(NumExponent(NumFraction(NumDigits(r, inp), inp), inp))

tokenizer_parse_numeric_literal(p, inp) ==
    NumInteger(IF CharAt(inp, p.pos) = "-"
               THEN NumSoFar(Advance(p, 1), <<"-">>)
               ELSE NumSoFar(p, <<>>), inp)

\* strncmp(input + pos, word, Len(word)) == 0
StartsWith(inp, pos, word) ==
    /\ pos + Len(word) <= Len(inp)
    /\ SubSeq(inp, pos + 1, pos + Len(word)) = word

\* A variant that leaves the cursor at the start of the keyword.
tokenizer_parse_keyword_literal_unmoved(p, inp) ==
    IF StartsWith(inp, p.pos, <<"t", "r", "u", "e">>)
    THEN Lexed(p, token_t(TOKEN_TRUE, <<"t", "r", "u", "e">>, Zero), <<>>)
    ELSE IF StartsWith(inp, p.pos, <<"f", "a", "l", "s", "e">>)
    THEN Lexed(p, token_t(TOKEN_FALSE, <<"f", "a", "l", "s", "e">>, Zero), <<>>)
    ELSE IF StartsWith(inp, p.pos, <<"n", "u", "l", "l">>)
    THEN Lexed(p, token_t(TOKEN_NULL, <<"n", "u", "l", "l">>, Zero), <<>>)
    ELSE Lexed(p, token_t(TOKEN_ERROR, <<>>, Zero), <<>>)

tokenizer_parse_keyword_literal(p, inp) ==
    IF StartsWith(inp, p.pos, <<"t", "r", "u", "e">>)
    THEN Lexed(Advance(p, 4), token_t(TOKEN_TRUE, <<"t", "r", "u", "e">>, Zero), <<>>)
    ELSE IF StartsWith(inp, p.pos, <<"f", "a", "l", "s", "e">>)
    THEN Lexed(Advance(p, 5),
               token_t(TOKEN_FALSE, <<"f", "a", "l", "s", "e">>, Zero), <<>>)
    ELSE IF StartsWith(inp, p.pos, <<"n", "u", "l", "l">>)
    THEN Lexed(Advance(p, 4), token_t(TOKEN_NULL, <<"n", "u", "l", "l">>, Zero), <<>>)
    ELSE Lexed(p, token_t(TOKEN_ERROR, <<>>, Zero), <<>>)

\* The single-character tokens of the switch.
Punctuation(c) ==
    CASE c = "{" -> TOKEN_LBRACE
      [] c = "}" -> TOKEN_RBRACE
      [] c = "[" -> TOKEN_LBRACKET
      [] c = "]" -> TOKEN_RBRACKET
      [] c = ":" -> TOKEN_COLON
      [] c = "," -> TOKEN_COMMA
      [] OTHER   -> TOKEN_ERROR

\* parser.c 221-289: the token at the cursor p, whitespace already skipped.
TokenAt(p, inp) ==
    IF p.pos >= p.length
    THEN Lexed(p, token_t(TOKEN_EOF, <<>>, Zero), <<>>)
    ELSE IF Punctuation(CharAt(inp, p.pos)) # TOKEN_ERROR
    THEN Lexed(Advance(p, 1),
               token_t(Punctuation(CharAt(inp, p.pos)), <<CharAt(inp, p.pos)>>, Zero),
               <<>>)
    ELSE IF CharAt(inp, p.pos) = "\""
    THEN tokenizer_parse_string_literal(p, inp)
    ELSE IF CharAt(inp, p.pos) = "-" \/ isdigit(CharAt(inp, p.pos))
    THEN tokenizer_parse_numeric_literal(p, inp)
    ELSE IF CharAt(inp, p.pos) \in {"t", "f", "n"}
    THEN tokenizer_parse_keyword_literal(p, inp)
    ELSE Lexed(p, token_t(TOKEN_ERROR, <<>>, Zero), <<"Unexpected character">>)

\* A variant that does not skip whitespace before the token.
tokenizer_get_next_token_unskipped(p, inp) == TokenAt(p, inp)

tokenizer_get_next_token(p, inp) == TokenAt(tokenizer_skip_whitespace(p, inp), inp)

-----------------------------------------------------------------------------
(* The heap.  malloc hands out the next address (a block is never reused,  *)
(* so a second free of an address stays visible); frees lists, in order,   *)
(* every non-NULL address passed to free().                                *)

JSON_OBJECT  == "JSON_OBJECT"
JSON_ARRAY   == "JSON_ARRAY"
JSON_STRING  == "JSON_STRING"
JSON_NUMBER  == "JSON_NUMBER"
JSON_BOOLEAN == "JSON_BOOLEAN"
JSON_NULL    == "JSON_NULL"

\* What a field of a fresh block holds until it is assigned.
Uninit == "uninitialized"

json_value_t(type, data) == [kind |-> "json_value_t", type |-> type, data |-> data]

json_member_t(key, value, next) ==
    [kind |-> "json_member_t", key |-> key, value |-> value, next |-> next]

json_element_t(value, next) ==
    [kind |-> "json_element_t", value |-> value, next |-> next]

\* A char buffer holding a NUL-terminated copy of text.
strdup_t(text) == [kind |-> "char", text |-> text]

\* The address the next malloc answers.
Fresh(s) == Len(s.heap) + 1

malloc(s, block) == [s EXCEPT !.heap = Append(@, block)]

free(s, ptr) == IF ptr = NULL THEN s ELSE [s EXCEPT !.frees = Append(@, ptr)]

\* free() of each address of a list, in order: free(NULL) does nothing.
FreeAll(s, ptrs) ==
    [s EXCEPT !.frees = @ \o SelectSeq(ptrs, LAMBDA ptr : ptr # NULL)]

-----------------------------------------------------------------------------
(* Tree release (src/src/memory.c): the addresses handed to free(), in the *)
(* order the code frees them.                                              *)

RECURSIVE json_memory_free_value(_, _)
RECURSIVE json_memory_free_object_member(_, _)
RECURSIVE json_memory_free_array_element(_, _)

\* A variant that does not free the key of a member.
json_memory_free_object_member_keeping_key(heap, member_node) ==
    IF member_node = NULL THEN <<>>
    ELSE json_memory_free_value(heap, heap[member_node].value)
         \o <<member_node>>
         \o json_memory_free_object_member(heap, heap[member_node].next)

json_memory_free_object_member(heap, member_node) ==
    IF member_node = NULL THEN <<>>
    ELSE LET next_member == heap[member_node].next
         IN  <<heap[member_node].key>>
             \o json_memory_free_value(heap, heap[member_node].value)
             \o <<member_node>>
             \o json_memory_free_object_member(heap, next_member)

json_memory_free_array_element(heap, element_node) ==
    IF element_node = NULL THEN <<>>
    ELSE LET next_element == heap[element_node].next
         IN  json_memory_free_value(heap, heap[element_node].value)
             \o <<element_node>>
             \o json_memory_free_array_element(heap, next_element)

json_memory_free_value(heap, json_value) ==
    IF json_value = NULL THEN <<>>
    ELSE (CASE heap[json_value].type = JSON_OBJECT ->
                   json_memory_free_object_member(heap, heap[json_value].data)
            [] heap[json_value].type = JSON_ARRAY ->
                   json_memory_free_array_element(heap, heap[json_value].data)
            [] heap[json_value].type = JSON_STRING -> <<heap[json_value].data>>
            [] OTHER -> <<>>)
         \o <<json_value>>

\* A call of json_memory_free_value as the parser and main make it.
FreeValue(s, json_value) == FreeAll(s, json_memory_free_value(s.heap, json_value))

-----------------------------------------------------------------------------
(* The program state, as one record: the steps below are functions on it.  *)
(*   pc      where main is: "args", "read", "start", "document", "parse",  *)
(*           "parsed", "write", "exit"                                     *)
(*   stack   the active calls of the parser, innermost last                *)
(*   ret     what the call that returned last returned                     *)
(*   input   the text of the standard input and of every readable file     *)
(*   fs      the files that can be opened for reading and for writing, and *)
(*           whether the output is full (takes no byte)                    *)
(*   output  the bytes the output (stdout or the -o file) has taken        *)
(*   opened  the files main has opened for writing, and so truncated       *)
(*   token   the token local to the tokenizer function that is running,    *)
(*           where the tokenizer is followed loop iteration by iteration   *)

parser_t(inp) ==
    [pos |-> 0, length |-> Len(inp), line |-> 1, column |-> 1,
     current_token |-> token_t(Uninit, <<>>, Zero)]

\* No file name: the NULL of main's input_filename and output_filename.
NoName == <<>>

\* argv[0], the program's name.
PROGRAM == <<"j", "2", "s">>

\* The address of the buffer that holds the text read: the text is input.
BUFFER == 1

\* The files of an invocation whose streams are the terminal's: none can be
\* opened, and the output takes every byte.
NoFiles == [readable |-> {}, writable |-> {}, full |-> FALSE]

\* The token local to a tokenizer function, while none is running.
NoToken == token_t(Uninit, <<>>, Zero)

\* main at parser_initialize, the text inp read from the standard input of an
\* invocation without arguments.
InitState(inp) ==
    [input |-> inp, pc |-> "start", parser |-> parser_t(inp), stack |-> <<>>,
     ret |-> NULL, heap |-> <<>>, frees |-> <<>>, json_value |-> NULL,
     output |-> <<>>, err |-> <<>>, exit_code |-> -1,
     argv |-> <<PROGRAM>>, fs |-> NoFiles, input_filename |-> NoName,
     output_filename |-> NoName, pretty_print |-> FALSE, json_string |-> BUFFER,
     opened |-> <<>>, token |-> NoToken]

Frame(fn, at, node, last, cur) ==
    [fn |-> fn, at |-> at, node |-> node, last |-> last, cur |-> cur]

Top(s) == s.stack[Len(s.stack)]

Pop(s) == SubSeq(s.stack, 1, Len(s.stack) - 1)

fprintf_stderr(s, line) == [s EXCEPT !.err = Append(@, line)]

\* s, with what the tokenizer call r answered.
Tokenized(s, r) ==
    [s EXCEPT !.parser = [r.parser EXCEPT !.current_token = r.token],
              !.err = @ \o r.err]

\* parser->current_token = tokenizer_get_next_token(parser);
NextToken(s) == Tokenized(s, tokenizer_get_next_token(s.parser, s.input))

\* return v; from the innermost call: back in main once no call is left.
Return(s, v) ==
    [s EXCEPT !.stack = Pop(s), !.ret = v,
              !.pc = IF Len(s.stack) = 1 THEN "parsed" ELSE s.pc]

\* The innermost call goes on as frame f.
Continue(s, f) == [s EXCEPT !.stack = Append(Pop(s), f)]

\* The innermost call goes on as frame f and calls json_parser_parse_value.
Call(s, f) ==
    [s EXCEPT !.stack = Append(Append(Pop(s), f),
                               Frame("json_parser_parse_value", "entry", NULL, NULL, NULL))]

SetField(s, ptr, field, v) == [s EXCEPT !.heap[ptr][field] = v]

-----------------------------------------------------------------------------
(* Parser (src/src/parser.c).                                              *)

parser_initialize(s) ==
    [NextToken([s EXCEPT !.parser = parser_t(s.input)]) EXCEPT !.pc = "document"]

json_parser_parse_document(s) ==
    [s EXCEPT !.pc = "parse",
              !.stack = <<Frame("json_parser_parse_value", "entry", NULL, NULL, NULL)>>]

\* A scalar: the value is filled in, the token consumed, the value returned.
ParseScalar(s, value, type, data) ==
    Return(NextToken(SetField(SetField(s, value, "type", type), value, "data", data)),
           value)

json_parser_parse_value(s) ==
    LET value == Fresh(s)
        m     == malloc(s, json_value_t(Uninit, Uninit))
        tok   == s.parser.current_token
    IN  CASE tok.type = TOKEN_LBRACE ->
                 Continue(free(m, value),
                          Frame("json_parser_parse_object", "entry", NULL, NULL, NULL))
          [] tok.type = TOKEN_LBRACKET ->
                 Continue(free(m, value),
                          Frame("json_parser_parse_array", "entry", NULL, NULL, NULL))
          [] tok.type = TOKEN_STRING ->
                 ParseScalar(malloc(m, strdup_t(tok.value)), value, JSON_STRING,
                             Fresh(m))
          [] tok.type = TOKEN_NUMBER ->
                 ParseScalar(m, value, JSON_NUMBER, tok.number_value)
          [] tok.type = TOKEN_TRUE  -> ParseScalar(m, value, JSON_BOOLEAN, TRUE)
          [] tok.type = TOKEN_FALSE -> ParseScalar(m, value, JSON_BOOLEAN, FALSE)
          [] tok.type = TOKEN_NULL  -> ParseScalar(m, value, JSON_NULL, Uninit)
          [] tok.type = TOKEN_ERROR ->
                 Return(free(fprintf_stderr(m, "Parse error: Invalid token encountered"),
                             value), NULL)
          [] OTHER ->
                 Return(free(fprintf_stderr(m, "Parse error: Unexpected token type"),
                             value), NULL)

\* parser.c 345-359: the object is allocated, '{' skipped, and an immediate
\* '}' closes it.
json_parser_parse_object(s) ==
    LET object == Fresh(s)
        t      == NextToken(malloc(s, json_value_t(JSON_OBJECT, NULL)))
    IN  IF t.parser.current_token.type = TOKEN_RBRACE
        THEN Return(NextToken(t), object)
        ELSE Continue(t, Frame("json_parser_parse_object", "loop", object, NULL, NULL))

\* parser.c 383-393: the key is skipped (m); a ':' must follow it, and the
\* member's value is parsed.
ObjectMemberColon(m, f, member) ==
    IF m.parser.current_token.type # TOKEN_COLON
    THEN Return(FreeValue(free(free(fprintf_stderr(m, "Expected ':' after object key"),
                                    m.heap[member].key), member),
                          f.node), NULL)
    ELSE Call(NextToken(m),
              Frame("json_parser_parse_object", "value", f.node, f.last, member))

\* parser.c 361-393 and 420: the loop test, the key, the ':' and the call
\* that parses the member's value.
json_parser_parse_object_member(s) ==
    IF s.parser.current_token.type = TOKEN_EOF
    THEN Return(s, Top(s).node)
    ELSE IF s.parser.current_token.type # TOKEN_STRING
    THEN Return(FreeValue(fprintf_stderr(s, "Expected string key in object"),
                          Top(s).node), NULL)
    ELSE ObjectMemberColon(
             NextToken(malloc(malloc(s, json_member_t(Fresh(s) + 1, NULL, NULL)),
                              strdup_t(s.parser.current_token.value))),
             Top(s), Fresh(s))

\* A variant that links each member in at the head of the list.
json_parser_parse_object_link_prepending(s) ==
    LET f      == Top(s)
        object == f.node
        member == f.cur
        v      == SetField(s, member, "value", s.ret)
        l      == SetField(SetField(v, member, "next", v.heap[object].data),
                           object, "data", member)
        tok    == s.parser.current_token
    IN  IF s.ret = NULL
        THEN Return(FreeValue(free(free(v, v.heap[member].key), member), object), NULL)
        ELSE IF tok.type = TOKEN_COMMA
        THEN Continue(NextToken(l),
                      Frame("json_parser_parse_object", "loop", object, member, NULL))
        ELSE IF tok.type = TOKEN_RBRACE
        THEN Return(NextToken(l), object)
        ELSE Return(FreeValue(fprintf_stderr(l, "Expected ',' or '}' in object"),
                              object), NULL)

\* parser.c 393-418: the value is back; the member is linked in and the
\* separator decides.
json_parser_parse_object_link(s) ==
    LET f      == Top(s)
        object == f.node
        member == f.cur
        v      == SetField(s, member, "value", s.ret)
        l      == IF v.heap[object].data = NULL
                  THEN SetField(v, object, "data", member)
                  ELSE SetField(v, f.last, "next", member)
        tok    == s.parser.current_token
    IN  IF s.ret = NULL
        THEN Return(FreeValue(free(free(v, v.heap[member].key), member), object), NULL)
        ELSE IF tok.type = TOKEN_COMMA
        THEN Continue(NextToken(l),
                      Frame("json_parser_parse_object", "loop", object, member, NULL))
        ELSE IF tok.type = TOKEN_RBRACE
        THEN Return(NextToken(l), object)
        ELSE Return(FreeValue(fprintf_stderr(l, "Expected ',' or '}' in object"),
                              object), NULL)

\* parser.c 424-438.
json_parser_parse_array(s) ==
    LET array == Fresh(s)
        t     == NextToken(malloc(s, json_value_t(JSON_ARRAY, NULL)))
    IN  IF t.parser.current_token.type = TOKEN_RBRACKET
        THEN Return(NextToken(t), array)
        ELSE Continue(t, Frame("json_parser_parse_array", "loop", array, NULL, NULL))

\* A variant that takes a ']' at the loop test for the end of the array.
json_parser_parse_array_element_closing(s) ==
    IF s.parser.current_token.type = TOKEN_RBRACKET
    THEN Return(NextToken(s), Top(s).node)
    ELSE IF s.parser.current_token.type = TOKEN_EOF
    THEN Return(s, Top(s).node)
    ELSE Call(malloc(s, json_element_t(Uninit, Uninit)),
              Frame("json_parser_parse_array", "value", Top(s).node, Top(s).last,
                    Fresh(s)))

\* A variant that passes over a ',' where an element should start, and does
\* not consume it.
json_parser_parse_array_element_eliding(s) ==
    IF s.parser.current_token.type = TOKEN_EOF
    THEN Return(s, Top(s).node)
    ELSE IF s.parser.current_token.type = TOKEN_COMMA
    THEN Continue(s, Top(s))
    ELSE Call(malloc(s, json_element_t(Uninit, Uninit)),
              Frame("json_parser_parse_array", "value", Top(s).node, Top(s).last,
                    Fresh(s)))

\* parser.c 440-447 and 475: the loop test, the element and the call that
\* parses its value.
json_parser_parse_array_element(s) ==
    LET f       == Top(s)
        element == Fresh(s)
    IN  IF s.parser.current_token.type = TOKEN_EOF
        THEN Return(s, f.node)
        ELSE Call(malloc(s, json_element_t(Uninit, Uninit)),
                  Frame("json_parser_parse_array", "value", f.node, f.last, element))

\* parser.c 447-473.
json_parser_parse_array_link(s) ==
    LET f       == Top(s)
        array   == f.node
        element == f.cur
        v       == SetField(SetField(s, element, "value", s.ret), element, "next", NULL)
        l       == IF v.heap[array].data = NULL
                   THEN SetField(v, array, "data", element)
                   ELSE SetField(v, f.last, "next", element)
        tok     == s.parser.current_token
    IN  IF s.ret = NULL
        THEN Return(FreeValue(free(v, element), array), NULL)
        ELSE IF tok.type = TOKEN_COMMA
        THEN Continue(NextToken(l),
                      Frame("json_parser_parse_array", "loop", array, element, NULL))
        ELSE IF tok.type = TOKEN_RBRACKET
        THEN Return(NextToken(l), array)
        ELSE Return(FreeValue(fprintf_stderr(l, "Expected ',' or ']' in array"),
                              array), NULL)

-----------------------------------------------------------------------------
(* S-expression writer (sexpr_output.c, src/unnamed/part_000): the text    *)
(* each function writes to the output.                                     *)

RECURSIVE EscapeChars(_)
\* A variant that copies a tab as it is.
EscapeCharsKeepingTab(text) ==
    IF text = <<>> THEN <<>>
    ELSE (CASE Head(text) = "\"" -> <<"\\", "\"">>
            [] Head(text) = "\\" -> <<"\\", "\\">>
            [] Head(text) = "\n" -> <<"\\", "n">>
            [] Head(text) = "\r" -> <<"\\", "r">>
            [] OTHER -> <<Head(text)>>)
         \o EscapeChars(Tail(text))

\* The for loop of string_utils_escape_for_lisp.
EscapeChars(text) ==
    IF text = <<>> THEN <<>>
    ELSE LET current_char == Head(text)
         IN  (CASE current_char = "\"" -> <<"\\", "\"">>
                [] current_char = "\\" -> <<"\\", "\\">>
                [] current_char = "\n" -> <<"\\", "n">>
                [] current_char = "\r" -> <<"\\", "r">>
                [] current_char = "\t" -> <<"\\", "t">>
                [] OTHER -> <<current_char>>)
             \o EscapeChars(Tail(text))

string_utils_escape_for_lisp(input_string) ==
    <<"\"">> \o EscapeChars(input_string) \o <<"\"">>

SPACES_PER_LEVEL == 2

Spaces(n) == [i \in 1..n |-> " "]

\* A variant that writes one space per level.
output_formatter_write_indentation_single(indentation_level) ==
    Spaces(indentation_level)

output_formatter_write_indentation(indentation_level) ==
    Spaces(indentation_level * SPACES_PER_LEVEL)

RECURSIVE DecimalDigits(_)
\* The decimal digits of a natural number.
DecimalDigits(n) ==
    IF n < 10 THEN <<Digits[n + 1]>>
    ELSE Append(DecimalDigits(n \div 10), Digits[(n % 10) + 1])

\* (long long)number_value is defined for values inside the 64-bit range;
\* 18 digits always are.
FitsLongLong(n) == Len(DecimalDigits(n.mant)) + n.exp <= 18

\* fprintf(output, "%lld", integer_value) of an integral value.
FormatLongLong(n) ==
    IF n.mant = 0 THEN <<"0">>
    ELSE (IF n.neg THEN <<"-">> ELSE <<>>)
         \o DecimalDigits(n.mant) \o [i \in 1..n.exp |-> "0"]

\* fprintf(output, "%.15g", number_value): at most 15 significant digits, no
\* trailing zeros; scientific notation when the decimal exponent of the
\* first digit is below -4 or at least 15.
FormatG15(n) ==
    LET d == DecimalDigits(n.mant)
        k == Len(d)
        x == k + n.exp - 1
        a == IF x < 0 THEN -x ELSE x
    IN  (IF n.neg THEN <<"-">> ELSE <<>>)
        \o (IF x < -4 \/ x >= 15
            THEN <<d[1]>> \o (IF k > 1 THEN <<".">> \o SubSeq(d, 2, k) ELSE <<>>)
                 \o <<"e", IF x < 0 THEN "-" ELSE "+">>
                 \o (IF a < 10 THEN <<"0">> ELSE <<>>) \o DecimalDigits(a)
            ELSE IF n.exp >= 0
            THEN d \o [i \in 1..n.exp |-> "0"]
            ELSE IF k > -n.exp
            THEN SubSeq(d, 1, k + n.exp) \o <<".">> \o SubSeq(d, k + n.exp + 1, k)
            ELSE <<"0", ".">> \o [i \in 1..(-n.exp - k) |-> "0"] \o d)

\* case JSON_NUMBER of sexpr_writer_write_value: an integer when the value
\* equals its own truncation.  A value outside the 64-bit range makes the
\* cast undefined; the inputs of this model stay far inside it.
WriteNumber(number_value) ==
    IF number_value.exp >= 0 /\ FitsLongLong(number_value)
    THEN FormatLongLong(number_value)
    ELSE FormatG15(number_value)

\* "(json:object", "(json:array" and "(json:" of the fprintf calls.
HEADER_OBJECT ==
    <<"(", "j", "s", "o", "n", ":", "o", "b", "j", "e", "c", "t">>

HEADER_ARRAY ==
    <<"(", "j", "s", "o", "n", ":", "a", "r", "r", "a", "y">>

HEADER_MEMBER ==
    <<"(", "j", "s", "o", "n", ":">>

\* ";; JSON to S-expression conversion\n\n" (main.c 157).
HEADER_COMMENT ==
    <<";", ";", " ", "J", "S", "O", "N", " ", "t", "o", " ", "S", "-", "e",
      "x", "p", "r", "e", "s", "s", "i", "o", "n", " ", "c", "o", "n", "v",
      "e", "r", "s", "i", "o", "n", "\n", "\n">>

RECURSIVE sexpr_writer_write_value(_, _, _)
RECURSIVE sexpr_writer_write_object_members(_, _, _, _)
RECURSIVE sexpr_writer_write_array_elements(_, _, _, _)

\* A variant that writes the value of a member at the level of the member.
sexpr_writer_write_object_members_flat(heap, member_node, indentation_level, is_first_member) ==
    IF member_node = NULL THEN <<>>
    ELSE (IF ~is_first_member
          THEN <<"\n">> \o output_formatter_write_indentation(indentation_level)
          ELSE <<>>)
         \o HEADER_MEMBER \o heap[heap[member_node].key].text \o <<" ">>
         \o sexpr_writer_write_value(heap, heap[member_node].value, indentation_level)
         \o <<")">>
         \o sexpr_writer_write_object_members(heap, heap[member_node].next,
                                              indentation_level, FALSE)

\* The body of the while loop, with is_first_member as a parameter.
sexpr_writer_write_object_members(heap, member_node, indentation_level, is_first_member) ==
    IF member_node = NULL THEN <<>>
    ELSE (IF ~is_first_member
          THEN <<"\n">> \o output_formatter_write_indentation(indentation_level)
          ELSE <<>>)
         \o HEADER_MEMBER \o heap[heap[member_node].key].text \o <<" ">>
         \o sexpr_writer_write_value(heap, heap[member_node].value, indentation_level + 1)
         \o <<")">>
         \o sexpr_writer_write_object_members(heap, heap[member_node].next,
                                              indentation_level, FALSE)

sexpr_writer_write_array_elements(heap, element_node, indentation_level, is_first_element) ==
    IF element_node = NULL THEN <<>>
    ELSE (IF ~is_first_element
          THEN <<"\n">> \o output_formatter_write_indentation(indentation_level)
          ELSE <<>>)
         \o sexpr_writer_write_value(heap, heap[element_node].value, indentation_level)
         \o sexpr_writer_write_array_elements(heap, heap[element_node].next,
                                              indentation_level, FALSE)

\* A variant that puts the ')' of a container on a line of its own.
sexpr_writer_write_value_closing_line(heap, json_value, indentation_level) ==
    IF json_value = NULL THEN <<"n", "i", "l">>
    ELSE LET v == heap[json_value]
         IN  CASE v.type = JSON_OBJECT ->
                      IF v.data # NULL
                      THEN HEADER_OBJECT \o <<"\n">>
                           \o output_formatter_write_indentation(indentation_level + 1)
                           \o sexpr_writer_write_object_members(
                                  heap, v.data, indentation_level + 1, TRUE)
                           \o <<"\n">>
                           \o output_formatter_write_indentation(indentation_level)
                           \o <<")">>
                      ELSE HEADER_OBJECT \o <<")">>
               [] v.type = JSON_ARRAY ->
                      IF v.data # NULL
                      THEN HEADER_ARRAY \o <<"\n">>
                           \o output_formatter_write_indentation(indentation_level + 1)
                           \o sexpr_writer_write_array_elements(
                                  heap, v.data, indentation_level + 1, TRUE)
                           \o <<"\n">>
                           \o output_formatter_write_indentation(indentation_level)
                           \o <<")">>
                      ELSE HEADER_ARRAY \o <<")">>
               [] v.type = JSON_STRING ->
                      string_utils_escape_for_lisp(heap[v.data].text)
               [] v.type = JSON_NUMBER -> WriteNumber(v.data)
               [] v.type = JSON_BOOLEAN ->
                      IF v.data THEN <<"#", "t">> ELSE <<"#", "f">>
               [] OTHER -> <<"n", "i", "l">>

\* A variant that writes an empty container as it does the others.
sexpr_writer_write_value_always_block(heap, json_value, indentation_level) ==
    IF json_value = NULL THEN <<"n", "i", "l">>
    ELSE LET v == heap[json_value]
         IN  CASE v.type = JSON_OBJECT ->
                      IF v.data # NULL
                      THEN HEADER_OBJECT \o <<"\n">>
                           \o output_formatter_write_indentation(indentation_level + 1)
                           \o sexpr_writer_write_object_members(
                                  heap, v.data, indentation_level + 1, TRUE)
                           \o <<")">>
                      ELSE HEADER_OBJECT \o <<"\n">>
                           \o output_formatter_write_indentation(indentation_level + 1)
                           \o <<")">>
               [] v.type = JSON_ARRAY ->
                      IF v.data # NULL
                      THEN HEADER_ARRAY \o <<"\n">>
                           \o output_formatter_write_indentation(indentation_level + 1)
                           \o sexpr_writer_write_array_elements(
                                  heap, v.data, indentation_level + 1, TRUE)
                           \o <<")">>
                      ELSE HEADER_ARRAY \o <<"\n">>
                           \o output_formatter_write_indentation(indentation_level + 1)
                           \o <<")">>
               [] v.type = JSON_STRING ->
                      string_utils_escape_for_lisp(heap[v.data].text)
               [] v.type = JSON_NUMBER -> WriteNumber(v.data)
               [] v.type = JSON_BOOLEAN ->
                      IF v.data THEN <<"#", "t">> ELSE <<"#", "f">>
               [] OTHER -> <<"n", "i", "l">>

sexpr_writer_write_value(heap, json_value, indentation_level) ==
    IF json_value = NULL THEN <<"n", "i", "l">>
    ELSE LET v == heap[json_value]
         IN  CASE v.type = JSON_OBJECT ->
                      IF v.data # NULL
                      THEN HEADER_OBJECT \o <<"\n">>
                           \o output_formatter_write_indentation(indentation_level + 1)
                           \o sexpr_writer_write_object_members(
                                  heap, v.data, indentation_level + 1, TRUE)
                           \o <<")">>
                      ELSE HEADER_OBJECT \o <<")">>
               [] v.type = JSON_ARRAY ->
                      IF v.data # NULL
                      THEN HEADER_ARRAY \o <<"\n">>
                           \o output_formatter_write_indentation(indentation_level + 1)
                           \o sexpr_writer_write_array_elements(
                                  heap, v.data, indentation_level + 1, TRUE)
                           \o <<")">>
                      ELSE HEADER_ARRAY \o <<")">>
               [] v.type = JSON_STRING ->
                      string_utils_escape_for_lisp(heap[v.data].text)
               [] v.type = JSON_NUMBER -> WriteNumber(v.data)
               [] v.type = JSON_BOOLEAN ->
                      IF v.data THEN <<"#", "t">> ELSE <<"#", "f">>
               [] OTHER -> <<"n", "i", "l">>

-----------------------------------------------------------------------------
(* Driver (src/src/main.c).                                                *)

\* The options of the command line, as texts.
OPT_H == <<"-", "h">>

OPT_HELP == <<"-", "-", "h", "e", "l", "p">>

OPT_P == <<"-", "p">>

OPT_PRETTY == <<"-", "-", "p", "r", "e", "t", "t", "y">>

OPT_O == <<"-", "o">>

\* The i-th argument (argv[0] is the program's name) and their number.
Arg(s, i) == s.argv[i + 1]

argc(s) == Len(s.argv)

\* main.c 4-15: the usage text goes to stderr.
print_usage(s) == fprintf_stderr(s, "Usage: [OPTIONS] [INPUT_FILE]")

RECURSIVE main_arguments(_, _)
\* main.c 88-113: the loop over the arguments, from argv[i] on.
main_arguments(s, i) ==
    IF i >= argc(s) THEN [s EXCEPT !.pc = "read"]
    ELSE IF Arg(s, i) = OPT_H \/ Arg(s, i) = OPT_HELP
    THEN [print_usage(s) EXCEPT !.exit_code = 0, !.pc = "exit"]
    ELSE IF Arg(s, i) = OPT_P \/ Arg(s, i) = OPT_PRETTY
    THEN main_arguments([s EXCEPT !.pretty_print = TRUE], i + 1)
    ELSE IF Arg(s, i) = OPT_O
    THEN IF i + 1 >= argc(s)
         THEN [print_usage(fprintf_stderr(s, "Error: -o requires an output filename"))
                  EXCEPT !.exit_code = 1, !.pc = "exit"]
         ELSE main_arguments([s EXCEPT !.output_filename = Arg(s, i + 1)], i + 2)
    ELSE IF Arg(s, i)[1] = "-"
    THEN [print_usage(fprintf_stderr(s, "Error: Unknown option"))
             EXCEPT !.exit_code = 1, !.pc = "exit"]
    ELSE IF s.input_filename # NoName
    THEN [print_usage(fprintf_stderr(s, "Error: Multiple input files specified"))
             EXCEPT !.exit_code = 1, !.pc = "exit"]
    ELSE main_arguments([s EXCEPT !.input_filename = Arg(s, i)], i + 1)

\* main.c 83-113: the locals, then the loop from argv[1] on.
main_parse_arguments(s) == main_arguments(s, 1)

\* main.c 18-50: the file's text, unless the file cannot be opened.
read_file_to_string(s, filename) ==
    IF filename \in s.fs.readable
    THEN [s EXCEPT !.json_string = BUFFER]
    ELSE fprintf_stderr(s, "Error opening file")

\* main.c 53-80: the text of the standard input.
read_stdin_to_string(s) == [s EXCEPT !.json_string = BUFFER]

\* A variant that opens the output file before the input is read.
main_read_input_opening_output(s) ==
    LET o == IF s.output_filename # NoName /\ s.output_filename \in s.fs.writable
             THEN [s EXCEPT !.opened = Append(@, s.output_filename)]
             ELSE s
        r == IF o.input_filename # NoName
             THEN read_file_to_string(o, o.input_filename)
             ELSE read_stdin_to_string(o)
    IN  IF r.json_string = NULL
        THEN [r EXCEPT !.exit_code = 1, !.pc = "exit"]
        ELSE [r EXCEPT !.pc = "start"]

\* main.c 115-125: the input is read, from the file named or from stdin.
main_read_input(s) ==
    LET r == IF s.input_filename # NoName
             THEN read_file_to_string(s, s.input_filename)
             ELSE read_stdin_to_string(s)
    IN  IF r.json_string = NULL
        THEN [r EXCEPT !.exit_code = 1, !.pc = "exit"]
        ELSE [r EXCEPT !.pc = "start"]

\* A variant that takes content after the value for a failure.
main_check_parse_strict(s) ==
    LET j == [s EXCEPT !.json_value = s.ret]
    IN  IF j.json_value = NULL \/ j.parser.current_token.type # TOKEN_EOF
        THEN [fprintf_stderr(j, "Error: Failed to parse JSON")
                 EXCEPT !.exit_code = 1, !.pc = "exit"]
        ELSE [j EXCEPT !.pc = "write"]

\* main.c 131-142: the parse result is checked; trailing content only warns.
main_check_parse(s) ==
    LET j == [s EXCEPT !.json_value = s.ret]
    IN  IF j.json_value = NULL
        THEN [fprintf_stderr(j, "Error: Failed to parse JSON")
                 EXCEPT !.exit_code = 1, !.pc = "exit"]
        ELSE IF j.parser.current_token.type # TOKEN_EOF
        THEN [fprintf_stderr(j, "Warning: Extra content after JSON") EXCEPT !.pc = "write"]
        ELSE [j EXCEPT !.pc = "write"]

\* A variant that does not end the output with a newline.
main_write_unterminated(s) ==
    LET w == [s EXCEPT !.output = @ \o HEADER_COMMENT
                                    \o sexpr_writer_write_value(s.heap, s.json_value, 0)]
    IN  [FreeValue(w, w.json_value) EXCEPT !.exit_code = 0, !.pc = "exit"]

\* main.c 156-160: the header, the value and a newline are printed to the
\* output, which takes them or, being full, takes none; fprintf's result is
\* not looked at.
main_print(s) ==
    IF s.fs.full THEN s
    ELSE [s EXCEPT !.output = @ \o HEADER_COMMENT
                                \o sexpr_writer_write_value(s.heap, s.json_value, 0)
                                \o <<"\n">>]

\* main.c 144-170: the output file, if one is named, is opened; the header,
\* the value and a newline are printed; then the tree is freed.
main_write(s) ==
    IF s.output_filename # NoName /\ s.output_filename \notin s.fs.writable
    THEN [FreeValue(fprintf_stderr(s, "Error opening output file"), s.json_value)
             EXCEPT !.exit_code = 1, !.pc = "exit"]
    ELSE [FreeValue(main_print([s EXCEPT !.opened =
                                    IF s.output_filename # NoName
                                    THEN Append(@, s.output_filename) ELSE @]),
                    s.json_value)
             EXCEPT !.exit_code = 0, !.pc = "exit"]

-----------------------------------------------------------------------------
(* The inputs: every text of at most MaxLen characters over Chars, and the *)
(* documents of scripts/test.sh and of the specification.                  *)

Chars == {"{", "}", "[", "]", ",", "\"", "0", "1", "-", " ", "\n", "a"}

Scenario ==
    <<"{", "\"", "a", "\"", ":", "1", ",", "\"", "b", "\"", ":", "[", "t",
      "r", "u", "e", ",", "f", "a", "l", "s", "e", ",", "n", "u", "l", "l",
      "]", "}">>

Corpus ==
    {
      \* the scenario of the specification
      <<"{", "\"", "a", "\"", ":", "1", ",", "\"", "b", "\"", ":", "[", "t",
        "r", "u", "e", ",", "f", "a", "l", "s", "e", ",", "n", "u", "l", "l",
        "]", "}">>,
      \* scripts/test.sh, categories 1 to 6: valid documents
      <<"{", "\"", "a", "\"", ":", "[", "1", ",", "2", ",", "{", "\"", "b",
        "\"", ":", "t", "r", "u", "e", "}", "]", "}">>,
      <<" ", " ", " ", "{", "\"", "a", "\"", ":", "1", "}">>,
      <<"{", " ", "\"", "a", "\"", " ", ":", " ", "1", " ", ",", " ", "\"",
        "b", "\"", " ", ":", " ", "2", " ", "}">>,
      <<"{", "\n", "\"", "a", "\"", ":", "\n", "1", "\n", "}">>,
      <<"{", "\t", "\"", "a", "\"", ":", "\t", "1", "\t", "}">>,
      <<"-", "1", "2", "3">>,
      <<"1", "2", "3", ".", "4", "5", "6">>,
      <<"1", ".", "2", "3", "e", "+", "1", "0">>,
      <<"1", ".", "2", "3", "e", "-", "1", "0">>,
      <<"0", ".", "5">>,
      <<"f", "a", "l", "s", "e">>,
      <<"n", "u", "l", "l">>,
      <<"\"", "H", "e", " ", "s", "a", "i", "d", " ", "\\", "\"", "h", "e",
        "l", "l", "o", "\\", "\"", "\"">>,
      <<"\"", "C", ":", "\\", "\\", "p", "a", "t", "h", "\\", "\\", "f", "i",
        "l", "e", "\"">>,
      <<"\"", "l", "i", "n", "e", "1", "\\", "n", "l", "i", "n", "e", "2",
        "\"">>,
      <<"\"", "c", "o", "l", "1", "\\", "t", "c", "o", "l", "2", "\"">>,
      <<"[", "1", ",", "\"", "h", "e", "l", "l", "o", "\"", ",", "t", "r",
        "u", "e", ",", "n", "u", "l", "l", "]">>,
      <<"[", "[", "1", ",", "2", "]", ",", "[", "3", ",", "4", "]", "]">>,
      <<"{", "\"", "k", "e", "y", "\"", ":", "\"", "v", "a", "l", "u", "e",
        "\"", "}">>,
      <<"{", "\"", "a", "\"", ":", "1", ",", "\"", "b", "\"", ":", "2", ",",
        "\"", "c", "\"", ":", "3", "}">>,
      <<"{", "\"", "o", "u", "t", "e", "r", "\"", ":", "{", "\"", "i", "n",
        "n", "e", "r", "\"", ":", "\"", "v", "a", "l", "u", "e", "\"", "}",
        "}">>,
      <<"{", "\"", "a", "\"", ":", "1", ",", "\"", "a", "\"", ":", "2", "}">>,
      \* scripts/test.sh, categories 7 to 10: invalid documents and trailing content
      <<"[", "1", ",", "2", ",", "]">>,
      <<"{", "\"", "a", "\"", ":", "1", ",", "}">>,
      <<"[", "1", " ", "2", "]">>,
      <<"{", "\"", "a", "\"", ":", "1", " ", "\"", "b", "\"", ":", "2", "}">>,
      <<"{", "\"", "a", "\"", " ", "1", "}">>,
      <<"{", "\"", "a", "\"", ":", "}">>,
      <<"[", "1", ",", "2">>,
      <<"{", "\"", "a", "\"", ":", "1">>,
      <<"\"", "h", "e", "l", "l", "o">>,
      <<"t", "r", "u">>,
      <<"@">>,
      <<":">>,
      <<" ", "\t", "\r", "\n">>,
      <<"{", "}", " ", "[", "]">>,
      <<"{", "\"", "u", "n", "c", "l", "o", "s", "e", "d", "\"", ":", " ">>,
      \* deeper nesting, a key holding a line feed, lenient numbers and escapes
      <<"{", "\"", "a", "\"", ":", "[", "1", ",", "2", "]", ",", "\"", "b",
        "\"", ":", "{", "\"", "c", "\"", ":", "[", "3", ",", "{", "\"", "d",
        "\"", ":", "4", "}", "]", "}", "}">>,
      <<"[", "[", "[", "1", ",", "2", "]", "]", ",", "[", "{", "\"", "a",
        "\"", ":", "[", "1", "]", "}", "]", "]">>,
      <<"{", "\"", "a", "\"", ":", "{", "\"", "b", "\"", ":", "{", "\"", "c",
        "\"", ":", "[", "1", ",", "2", "]", "}", "}", "}">>,
      <<"{", "\"", "a", "\\", "n", "b", "\"", ":", "[", "1", ",", "2", "]",
        "}">>,
      <<"{", "\"", "a", "\"", ":", "1", ",">>,
      <<"{", "\"", "a", "\"", ":", "[", "1", ",">>,
      <<"[", "\"", "\\", "u", "0", "0", "4", "1", "\"", ",", "\"", "\\", "/",
        "\"", "]">>,
      <<"1", "e", "1">>,
      <<"1", "e">>,
      <<"1", ".">>,
      <<"1", ".", "5", "e", "-", "5">>,
      <<"[", "1", ".", "5", "0", ",", "-", "0", ".", "0", "]">>,
      <<"[", "1", ",", "]">>,
      <<"[", "[", "]", "]">>,
      <<"[", "[", "1", ",">>,
      <<"{", "}", "{", "}">>,
      <<"[", "]", " ", "0", "1">>,
      <<"-", "0", " ", "-", "0", "1">>,
      \* a failure deep inside a tree, and content after a nested document
      <<"{", "\"", "a", "\"", ":", "[", "\"", "b", "\"", ",", "{", "\"", "c",
        "\"", ":", "1", "}", "]", ",", "\"", "d", "\"", ":", "[", "2", ",",
        "]", "}">>,
      <<"{", "\"", "a", "\"", ":", "[", "1", "]", ",", "\"", "a", "\"", ":",
        "{", "\"", "a", "\"", ":", "\"", "b", "\"", "}", "}", " ", "x">>,
      \* \u escapes, and the characters the writer escapes
      <<"\"", "\\", "u", "0", "0", "4", "1", "\"">>,
      <<"\"", "a", "\\", "u", "0", "0", "e", "9", "b", "\"">>,
      <<"\"", "a", "\\", "\"", "b", "\\", "\\", "c", "\\", "n", "d", "\\",
        "r", "e", "\\", "t", "f", "\\", "b", "g", "\\", "f", "h", "\\", "/",
        "i", "\"">>,
      <<"{", "\"", "k", "\"", ":", "\"", "x", "\\", "t", "y", "\"", ",",
        "\"", "l", "\"", ":", "[", "\"", "\\", "\"", "\"", ",", "\"", "\"",
        "]", "}">>,
      \* empty containers as root, member value and element
      <<"{", "\"", "a", "\"", ":", "{", "}", ",", "\"", "b", "\"", ":", "[",
        "]", "}">>,
      <<"[", "{", "}", ",", "[", "]", "]">>,
      <<"[", "[", "]", ",", "{", "\"", "a", "\"", ":", "[", "{", "}", "]",
        "}", "]">>,
      \* whitespace of every kind between tokens
      <<"{", " ", "\"", "a", "\"", " ", ":", " ", "1", " ", " ", ",", "\n",
        "\t", "\"", "b", "\"", " ", ":", " ", "[", " ", "2", " ", ",", "\r",
        "\n", " ", "3", " ", "]", " ", "}">>,
      <<" ", "1", " ", "\n">>,
      <<"[", "1", " ", "2", "]">>,
      <<"1", " ", "1">>,
      \* keywords, and words that start like them
      <<"t", "r", "u", "e", "x">>,
      <<"n", "u", "l">>,
      <<"f", "a", "l", "s">>,
      <<"n", "u", "l", "l", "n", "u", "l", "l">>,
      <<"[", "t", "r", "u", "e", ",", "f", "a", "l", "s", "e", ",", "n", "u",
        "l", "l", "]">>,
      <<"[", "t", "r", "u", "e", "f", "a", "l", "s", "e", "]">>,
      <<"f", "a", "l", "s", "e">>,
      <<"n", "u", "l", "l">>,
      <<"t", "r", "u", "e">>,
      <<"n">>,
      <<"t", "n", "u", "l", "l">>,
      \* keys written raw: a line feed, a parenthesis
      <<"{", "\"", "a", "\\", "n", "b", "\"", ":", "[", "1", "]", "}">>,
      <<"{", "\"", "a", "\n", ")", "\"", ":", "{", "\"", "b", "\"", ":", "[",
        "]", "}", "}">>,
      <<"{", "\"", ")", "\"", ":", "[", "{", "\"", "(", "\"", ":", "1", "}",
        "]", "}">>,
      \* a document that ends with a newline, as a file does
      <<"[", "1", ",", " ", "t", "r", "u", "e", ",", " ", "\"", "a", "\"",
        "]", "\n">>,
      <<"{", "\"", "a", "\"", ":", " ", "n", "u", "l", "l", "}", "\n", "\n">>
    }

ShortInputs == UNION {[1..n -> Chars] : n \in 0..MaxLen}

\* n arrays, one inside the other, around the text inner.
Nested(n, inner) == [i \in 1..n |-> "["] \o inner \o [i \in 1..n |-> "]"]

\* The deep_nesting document of scripts/test.sh (50 levels), and arrays
\* nested one level deeper than MAX_DEPTH.
DeepDocuments == {Nested(50, <<"0">>), Nested(MAX_DEPTH + 1, <<>>)}

Inputs == ShortInputs \cup Corpus

-----------------------------------------------------------------------------
(* The state machine.                                                      *)

VARIABLES input, pc, parser, stack, ret, heap, frees, json_value, output, err,
          exit_code, argv, fs, input_filename, output_filename, pretty_print,
          json_string, opened, token

vars == <<input, pc, parser, stack, ret, heap, frees, json_value, output, err,
          exit_code, argv, fs, input_filename, output_filename, pretty_print,
          json_string, opened, token>>

State ==
    [input |-> input, pc |-> pc, parser |-> parser, stack |-> stack, ret |-> ret,
     heap |-> heap, frees |-> frees, json_value |-> json_value, output |-> output,
     err |-> err, exit_code |-> exit_code, argv |-> argv, fs |-> fs,
     input_filename |-> input_filename, output_filename |-> output_filename,
     pretty_print |-> pretty_print, json_string |-> json_string,
     opened |-> opened, token |-> token]

\* The program moves to state s.
Becomes(s) ==
    /\ input' = s.input
    /\ pc' = s.pc
    /\ parser' = s.parser
    /\ stack' = s.stack
    /\ ret' = s.ret
    /\ heap' = s.heap
    /\ frees' = s.frees
    /\ json_value' = s.json_value
    /\ output' = s.output
    /\ err' = s.err
    /\ exit_code' = s.exit_code
    /\ argv' = s.argv
    /\ fs' = s.fs
    /\ input_filename' = s.input_filename
    /\ output_filename' = s.output_filename
    /\ pretty_print' = s.pretty_print
    /\ json_string' = s.json_string
    /\ opened' = s.opened
    /\ token' = s.token

\* The innermost active call of the parser is fn, at the place `at`.
InCall(s, fn, at) ==
    /\ s.pc = "parse"
    /\ s.stack # <<>>
    /\ Top(s).fn = fn
    /\ Top(s).at = at

\* main has read the text from the standard input of an invocation without
\* arguments, and is about to parse it.
Init ==
    /\ input \in Inputs
    /\ pc = "start"
    /\ parser = parser_t(input)
    /\ stack = <<>>
    /\ ret = NULL
    /\ heap = <<>>
    /\ frees = <<>>
    /\ json_value = NULL
    /\ output = <<>>
    /\ err = <<>>
    /\ exit_code = -1
    /\ argv = <<PROGRAM>>
    /\ fs = NoFiles
    /\ input_filename = NoName
    /\ output_filename = NoName
    /\ pretty_print = FALSE
    /\ json_string = BUFFER
    /\ opened = <<>>
    /\ token = NoToken

ParserInitialize ==
    /\ pc = "start"
    /\ Becomes(parser_initialize(State))

ParseDocument ==
    /\ pc = "document"
    /\ Becomes(json_parser_parse_document(State))

ParseValue ==
    /\ InCall(State, "json_parser_parse_value", "entry")
    /\ Becomes(json_parser_parse_value(State))

ParseObject ==
    /\ InCall(State, "json_parser_parse_object", "entry")
    /\ Becomes(json_parser_parse_object(State))

ParseObjectMember ==
    /\ InCall(State, "json_parser_parse_object", "loop")
    /\ Becomes(json_parser_parse_object_member(State))

ParseObjectLink ==
    /\ InCall(State, "json_parser_parse_object", "value")
    /\ Becomes(json_parser_parse_object_link(State))

ParseArray ==
    /\ InCall(State, "json_parser_parse_array", "entry")
    /\ Becomes(json_parser_parse_array(State))

ParseArrayElement ==
    /\ InCall(State, "json_parser_parse_array", "loop")
    /\ Becomes(json_parser_parse_array_element(State))

ParseArrayLink ==
    /\ InCall(State, "json_parser_parse_array", "value")
    /\ Becomes(json_parser_parse_array_link(State))

MainCheckParse ==
    /\ pc = "parsed"
    /\ Becomes(main_check_parse(State))

MainWrite ==
    /\ pc = "write"
    /\ Becomes(main_write(State))

Next ==
    \/ ParserInitialize
    \/ ParseDocument
    \/ ParseValue
    \/ ParseObject
    \/ ParseObjectMember
    \/ ParseObjectLink
    \/ ParseArray
    \/ ParseArrayElement
    \/ ParseArrayLink
    \/ MainCheckParse
    \/ MainWrite

Spec == Init /\ [][Next]_vars

-----------------------------------------------------------------------------
(* The invocations from the command line: main from its entry, with the    *)
(* arguments of scripts/test.sh and their like, where the input file may   *)
(* be missing, the output file may not open, and the output may be full.   *)

IN_FILE == <<"i", "n">>

MISSING_FILE == <<"n", "o">>

OUT_FILE == <<"o", "u", "t">>

OPT_X == <<"-", "x">>

OPT_INVALID == <<"-", "-", "i", "n", "v", "a", "l", "i", "d", "-", "o", "p", "t", "i", "o", "n">>

CommandLines ==
    { <<>>, <<OPT_H>>, <<OPT_HELP>>, <<OPT_P>>, <<OPT_PRETTY>>, <<IN_FILE>>,
      <<MISSING_FILE>>, <<OPT_O>>, <<OPT_O, OUT_FILE>>,
      <<OPT_O, OUT_FILE, IN_FILE>>, <<IN_FILE, OPT_O, OUT_FILE>>,
      <<OPT_O, OUT_FILE, MISSING_FILE>>, <<OPT_INVALID>>, <<OPT_X>>,
      <<IN_FILE, IN_FILE>>, <<OPT_O, OPT_X>>, <<IN_FILE, OPT_H>>,
      <<OPT_P, OPT_O, OUT_FILE, IN_FILE>>, <<MISSING_FILE, OPT_X>>,
      <<OPT_O, OUT_FILE, OPT_O>> }

Environments ==
    [readable : {{IN_FILE}}, writable : {{}, {OUT_FILE, OPT_X}}, full : BOOLEAN]

CliInputs ==
    { Scenario, <<>>, <<"[">>, <<"1", " ", "x">>,
      <<"\"", "h", "e", "l", "l", "o">>, <<"[", "1", ",", "]">>,
      <<"\"", "a", "\"">> }

\* main is entered.
CliInit ==
    /\ input \in CliInputs
    /\ pc = "args"
    /\ parser = parser_t(input)
    /\ stack = <<>>
    /\ ret = NULL
    /\ heap = <<>>
    /\ frees = <<>>
    /\ json_value = NULL
    /\ output = <<>>
    /\ err = <<>>
    /\ exit_code = -1
    /\ argv \in {<<PROGRAM>> \o args : args \in CommandLines}
    /\ fs \in Environments
    /\ input_filename = NoName
    /\ output_filename = NoName
    /\ pretty_print = FALSE
    /\ json_string = NULL
    /\ opened = <<>>
    /\ token = NoToken

MainParseArguments ==
    /\ pc = "args"
    /\ Becomes(main_parse_arguments(State))

MainReadInput ==
    /\ pc = "read"
    /\ Becomes(main_read_input(State))

CliNext ==
    \/ MainParseArguments
    \/ MainReadInput
    \/ Next

CliSpec == CliInit /\ [][CliNext]_vars

-----------------------------------------------------------------------------
(* The parser alone, on deeply nested documents: main's call of            *)
(* parser_initialize and of json_parser_parse_document, up to its return.  *)

ParseInputs == DeepDocuments \cup {Scenario}

\* main has read a deeply nested text, and is about to parse it.
ParseInit ==
    /\ input \in ParseInputs
    /\ pc = "start"
    /\ parser = parser_t(input)
    /\ stack = <<>>
    /\ ret = NULL
    /\ heap = <<>>
    /\ frees = <<>>
    /\ json_value = NULL
    /\ output = <<>>
    /\ err = <<>>
    /\ exit_code = -1
    /\ argv = <<PROGRAM>>
    /\ fs = NoFiles
    /\ input_filename = NoName
    /\ output_filename = NoName
    /\ pretty_print = FALSE
    /\ json_string = BUFFER
    /\ opened = <<>>
    /\ token = NoToken

ParseNext ==
    \/ ParserInitialize
    \/ ParseDocument
    \/ ParseValue
    \/ ParseObject
    \/ ParseObjectMember
    \/ ParseObjectLink
    \/ ParseArray
    \/ ParseArrayElement
    \/ ParseArrayLink

ParseSpec == ParseInit /\ [][ParseNext]_vars

-----------------------------------------------------------------------------
(* The tokenizer followed one loop iteration at a time, on literals as     *)
(* long as token.value: token is the local token of the tokenizer function *)
(* that runs, and value_pos is the length of token.value.  The caller asks *)
(* for one token after another until it has TOKEN_EOF or TOKEN_ERROR.      *)

\* return token; and the caller's parser->current_token = ...
TokenReturned(s, r) ==
    [Tokenized(s, r) EXCEPT
         !.token = r.token,
         !.pc = IF r.token.type \in {TOKEN_EOF, TOKEN_ERROR}
                THEN "lexed" ELSE "token"]

\* tokenizer_parse_string_literal in its loop, the cursor at p.
StringAt(s, p, value) ==
    [s EXCEPT !.parser = p, !.token = token_t(TOKEN_STRING, value, Zero),
              !.pc = "string"]

\* tokenizer_parse_numeric_literal at the place at, the literal so far r.
NumAt(s, r, at) ==
    [s EXCEPT !.parser = r.parser,
              !.token = token_t(TOKEN_NUMBER, r.value, Zero), !.pc = at]

\* parser.c 120-142, up to the loop of the integer part.
tokenizer_parse_numeric_literal_entry(s, r) ==
    IF r.parser.pos < r.parser.length /\ CharAt(s.input, r.parser.pos) = "0"
    THEN IF r.parser.pos + 1 < r.parser.length
            /\ isdigit(CharAt(s.input, r.parser.pos + 1))
         THEN TokenReturned(s, NumInteger(r, s.input))
         ELSE NumAt(s, NumSoFar(Advance(r.parser, 1), Append(r.value, "0")),
                    "fraction")
    ELSE NumAt(s, r, "integer")

\* parser.c 221-289 with the cursor p after the whitespace: a string or a
\* numeric literal is entered, any other token is returned at once.
tokenizer_get_next_token_at(s, p) ==
    IF p.pos < p.length /\ CharAt(s.input, p.pos) = "\""
    THEN StringAt(s, Advance(p, 1), <<>>)
    ELSE IF p.pos < p.length
            /\ (CharAt(s.input, p.pos) = "-" \/ isdigit(CharAt(s.input, p.pos)))
    THEN tokenizer_parse_numeric_literal_entry(
             s, IF CharAt(s.input, p.pos) = "-"
                THEN NumSoFar(Advance(p, 1), <<"-">>)
                ELSE NumSoFar(p, <<>>))
    ELSE TokenReturned(s, TokenAt(p, s.input))

\* A variant that returns what the buffer holds as a string once it is full.
tokenizer_parse_string_literal_truncating(s) ==
    IF s.parser.pos < s.parser.length /\ Len(s.token.value) < MAX_TOKEN_SIZE - 1
    THEN IF CharAt(s.input, s.parser.pos) = "\""
         THEN TokenReturned(s, StringToken(
                  [parser |-> Advance(s.parser, 1), value |-> s.token.value,
                   found_closing_quote |-> TRUE]))
         ELSE IF CharAt(s.input, s.parser.pos) = "\\"
                 /\ s.parser.pos + 1 < s.parser.length
         THEN StringAt(s, Advance(s.parser, 2),
                       s.token.value
                           \o Unescape(CharAt(s.input, s.parser.pos + 1),
                                       Len(s.token.value)))
         ELSE StringAt(s, Advance(s.parser, 1),
                       Append(s.token.value, CharAt(s.input, s.parser.pos)))
    ELSE TokenReturned(s, StringToken(
             [parser |-> s.parser, value |-> s.token.value,
              found_closing_quote |-> s.parser.pos < s.parser.length]))

\* parser.c 59-105: the test of the while loop and one iteration, or the
\* return once the loop has ended.
tokenizer_parse_string_literal_iteration(s) ==
    IF s.parser.pos < s.parser.length /\ Len(s.token.value) < MAX_TOKEN_SIZE - 1
    THEN IF CharAt(s.input, s.parser.pos) = "\""
         THEN TokenReturned(s, StringToken(
                  [parser |-> Advance(s.parser, 1), value |-> s.token.value,
                   found_closing_quote |-> TRUE]))
         ELSE IF CharAt(s.input, s.parser.pos) = "\\"
                 /\ s.parser.pos + 1 < s.parser.length
         THEN StringAt(s, Advance(s.parser, 2),
                       s.token.value
                           \o Unescape(CharAt(s.input, s.parser.pos + 1),
                                       Len(s.token.value)))
         ELSE StringAt(s, Advance(s.parser, 1),
                       Append(s.token.value, CharAt(s.input, s.parser.pos)))
    ELSE TokenReturned(s, StringToken(
             [parser |-> s.parser, value |-> s.token.value,
              found_closing_quote |-> FALSE]))

\* The test of a while loop over digits (parser.c 135, 152, 179) and one
\* iteration: after is where the function goes on once the loop has ended.
tokenizer_parse_numeric_literal_digit(s, after) ==
    IF s.parser.pos < s.parser.length /\ isdigit(CharAt(s.input, s.parser.pos))
    THEN NumAt(s, NumTake(NumSoFar(s.parser, s.token.value), s.input), s.pc)
    ELSE [s EXCEPT !.pc = after]

\* parser.c 145-150: the '.' of a fractional part.
tokenizer_parse_numeric_literal_fraction(s) ==
    IF s.parser.pos < s.parser.length /\ CharAt(s.input, s.parser.pos) = "."
    THEN NumAt(s, NumTake(NumSoFar(s.parser, s.token.value), s.input), "fraction_digits")
    ELSE [s EXCEPT !.pc = "exponent"]

\* parser.c 162-177: the 'e' or 'E' of an exponent, then its optional sign.
tokenizer_parse_numeric_literal_exponent(s) ==
    IF s.parser.pos < s.parser.length
       /\ CharAt(s.input, s.parser.pos) \in {"e", "E"}
    THEN IF s.parser.pos + 1 < s.parser.length
            /\ CharAt(s.input, s.parser.pos + 1) \in {"+", "-"}
         THEN NumAt(s, NumTake(NumTake(NumSoFar(s.parser, s.token.value),
                                       s.input), s.input),
                    "exponent_digits")
         ELSE NumAt(s, NumTake(NumSoFar(s.parser, s.token.value), s.input),
                    "exponent_digits")
    ELSE [s EXCEPT !.pc = "number"]

\* parser.c 188-190.
tokenizer_parse_numeric_literal_return(s) ==
    TokenReturned(s, NumToken(NumSoFar(s.parser, s.token.value)))

TokenizerGetNextToken ==
    /\ pc = "token"
    /\ Becomes(tokenizer_get_next_token_at(
                   State, tokenizer_skip_whitespace(parser, input)))

StringLiteralIteration ==
    /\ pc = "string"
    /\ Becomes(tokenizer_parse_string_literal_iteration(State))

NumericLiteralInteger ==
    /\ pc = "integer"
    /\ Becomes(tokenizer_parse_numeric_literal_digit(State, "fraction"))

NumericLiteralFraction ==
    /\ pc = "fraction"
    /\ Becomes(tokenizer_parse_numeric_literal_fraction(State))

NumericLiteralFractionDigits ==
    /\ pc = "fraction_digits"
    /\ Becomes(tokenizer_parse_numeric_literal_digit(State, "exponent"))

NumericLiteralExponent ==
    /\ pc = "exponent"
    /\ Becomes(tokenizer_parse_numeric_literal_exponent(State))

NumericLiteralExponentDigits ==
    /\ pc = "exponent_digits"
    /\ Becomes(tokenizer_parse_numeric_literal_digit(State, "number"))

NumericLiteralReturn ==
    /\ pc = "number"
    /\ Becomes(tokenizer_parse_numeric_literal_return(State))

\* How far below and above the size of token.value the long literals reach.
Margin == 2

\* n times the character c.
Rep(c, n) == [i \in 1..n |-> c]

LongLengths == (MAX_TOKEN_SIZE - 2 - Margin)..(MAX_TOKEN_SIZE - 2 + Margin)

\* Literals around the size of token.value: strings closed, left open, and
\* with an escape (recognised or not) as their last character; numbers
\* with and without a sign, a fractional part and an exponent.
LongLiterals ==
    {<<"\"">> \o Rep("a", n) \o tail :
         n \in LongLengths,
         tail \in {<<"\"">>, <<>>, <<"\\", "n", "\"">>, <<"\\", "q", "\"">>}}
    \cup
    {sign \o Rep("1", n) \o tail :
         n \in LongLengths, sign \in {<<>>, <<"-">>},
         tail \in {<<>>, <<".", "5", "e", "+", "7">>}}

\* The large_string document of scripts/test.sh: 1000 times 'a'.
LargeString ==
    <<"{", "\"", "l", "a", "r", "g", "e", "\"", ":", " ", "\"">>
        \o Rep("a", 1000) \o <<"\"", "}">>

TokenInputs == LongLiterals \cup {LargeString} \cup Corpus

TokenInit ==
    /\ input \in TokenInputs
    /\ pc = "token"
    /\ parser = parser_t(input)
    /\ stack = <<>>
    /\ ret = NULL
    /\ heap = <<>>
    /\ frees = <<>>
    /\ json_value = NULL
    /\ output = <<>>
    /\ err = <<>>
    /\ exit_code = -1
    /\ argv = <<PROGRAM>>
    /\ fs = NoFiles
    /\ input_filename = NoName
    /\ output_filename = NoName
    /\ pretty_print = FALSE
    /\ json_string = BUFFER
    /\ opened = <<>>
    /\ token = NoToken

TokenNext ==
    \/ TokenizerGetNextToken
    \/ StringLiteralIteration
    \/ NumericLiteralInteger
    \/ NumericLiteralFraction
    \/ NumericLiteralFractionDigits
    \/ NumericLiteralExponent
    \/ NumericLiteralExponentDigits
    \/ NumericLiteralReturn

TokenSpec == TokenInit /\ [][TokenNext]_vars

-----------------------------------------------------------------------------
(* The whole invocation as a function of the input: the steps above, taken *)
(* until main exits.                                                       *)

Step(s) ==
    CASE s.pc = "args"     -> main_parse_arguments(s)
      [] s.pc = "read"     -> main_read_input(s)
      [] s.pc = "start"    -> parser_initialize(s)
      [] s.pc = "document" -> json_parser_parse_document(s)
      [] s.pc = "parsed"   -> main_check_parse(s)
      [] s.pc = "write"    -> main_write(s)
      [] InCall(s, "json_parser_parse_value", "entry")  -> json_parser_parse_value(s)
      [] InCall(s, "json_parser_parse_object", "entry") -> json_parser_parse_object(s)
      [] InCall(s, "json_parser_parse_object", "loop")  ->
             json_parser_parse_object_member(s)
      [] InCall(s, "json_parser_parse_object", "value") ->
             json_parser_parse_object_link(s)
      [] InCall(s, "json_parser_parse_array", "entry")  -> json_parser_parse_array(s)
      [] InCall(s, "json_parser_parse_array", "loop")   ->
             json_parser_parse_array_element(s)
      [] InCall(s, "json_parser_parse_array", "value")  ->
             json_parser_parse_array_link(s)

RECURSIVE Run(_)
Run(s) == IF s.pc = "exit" THEN s ELSE Run(Step(s))

\* main, from parser_initialize to its return, on the text inp.
main(inp) == Run(InitState(inp))

-----------------------------------------------------------------------------
\* What the claims speak of: the tokens of a text, and the grammar
\*   document := value
\*   value    := object | array | string | number | true | false | null
\*   object   := '{' [ member { ',' member } ] '}'
\*   member   := string ':' value
\*   array    := '[' [ value { ',' value } ] ']'
\* read on the token types.

RECURSIVE LexAll(_, _)
\* The token of r, and those after it unless it is an EOF or ERROR token.
LexFrom(r, inp) ==
    IF r.token.type \in {TOKEN_EOF, TOKEN_ERROR}
    THEN <<r.token>>
    ELSE <<r.token>> \o LexAll(r.parser, inp)

\* The tokens from the cursor p on, up to and including the first EOF or
\* ERROR token.
LexAll(p, inp) == LexFrom(tokenizer_get_next_token(p, inp), inp)

Tokens(inp) == LexAll(parser_t(inp), inp)

TypesOf(toks) == [i \in 1..Len(toks) |-> toks[i].type]

TokenTypes(inp) == TypesOf(Tokens(inp))

ScalarTokens == {TOKEN_STRING, TOKEN_NUMBER, TOKEN_TRUE, TOKEN_FALSE, TOKEN_NULL}

Opens(type) == type \in {TOKEN_LBRACE, TOKEN_LBRACKET}

Closes(type) == type \in {TOKEN_RBRACE, TOKEN_RBRACKET}

RECURSIVE ValueEnd(_, _)
RECURSIVE MembersEnd(_, _)
RECURSIVE ElementsEnd(_, _)
RECURSIVE AfterMember(_, _)
RECURSIVE AfterElement(_, _)

\* The index after the value that starts at t[i]; 0 when none does.  (t ends
\* with EOF or ERROR, which no rule accepts.)
ValueEnd(t, i) ==
    IF i > Len(t) THEN 0
    ELSE IF t[i] \in ScalarTokens THEN i + 1
    ELSE IF t[i] = TOKEN_LBRACE
    THEN (IF t[i + 1] = TOKEN_RBRACE THEN i + 2 ELSE MembersEnd(t, i + 1))
    ELSE IF t[i] = TOKEN_LBRACKET
    THEN (IF t[i + 1] = TOKEN_RBRACKET THEN i + 2 ELSE ElementsEnd(t, i + 1))
    ELSE 0

\* member (',' member)* '}' from t[i] on.
MembersEnd(t, i) ==
    IF i + 1 <= Len(t) /\ t[i] = TOKEN_STRING /\ t[i + 1] = TOKEN_COLON
    THEN AfterMember(t, ValueEnd(t, i + 2))
    ELSE 0

AfterMember(t, j) ==
    IF j = 0 \/ j > Len(t) THEN 0
    ELSE IF t[j] = TOKEN_COMMA THEN MembersEnd(t, j + 1)
    ELSE IF t[j] = TOKEN_RBRACE THEN j + 1
    ELSE 0

\* value (',' value)* ']' from t[i] on.
ElementsEnd(t, i) == AfterElement(t, ValueEnd(t, i))

AfterElement(t, j) ==
    IF j = 0 \/ j > Len(t) THEN 0
    ELSE IF t[j] = TOKEN_COMMA THEN ElementsEnd(t, j + 1)
    ELSE IF t[j] = TOKEN_RBRACKET THEN j + 1
    ELSE 0

\* The text starts with a document of the grammar.  (What follows the
\* document is the trailing content that main only warns about.)
DocumentMatches(inp) == ValueEnd(TokenTypes(inp), 1) # 0

RECURSIVE DocClose(_, _, _)
\* The index of the bracket that closes the container opened at t[1], by
\* counting brackets from t[i] on at depth d; 0 when the text ends first.
DocClose(t, i, d) ==
    IF i > Len(t) THEN 0
    ELSE IF Opens(t[i]) THEN DocClose(t, i + 1, d + 1)
    ELSE IF Closes(t[i]) THEN (IF d = 1 THEN i ELSE DocClose(t, i + 1, d - 1))
    ELSE DocClose(t, i + 1, d)

\* The document is a container that is opened and that the text, lexed to
\* its end, never closes.
Unclosed(t) == Opens(t[1]) /\ t[Len(t)] = TOKEN_EOF /\ DocClose(t, 1, 0) = 0

RECURSIVE HasTrailingComma(_, _, _)
\* Inside the document that starts at t[1], a ',' in an array is followed by
\* ']' or a ',' in an object by '}'; open lists the containers open at t[i].
HasTrailingComma(t, i, open) ==
    IF i >= Len(t) THEN FALSE
    ELSE IF Opens(t[i]) THEN HasTrailingComma(t, i + 1, Append(open, t[i]))
    ELSE IF open = <<>> THEN FALSE
    ELSE IF Closes(t[i])
    THEN Len(open) > 1 /\ HasTrailingComma(t, i + 1, SubSeq(open, 1, Len(open) - 1))
    ELSE IF /\ t[i] = TOKEN_COMMA
            /\ \/ open[Len(open)] = TOKEN_LBRACKET /\ t[i + 1] = TOKEN_RBRACKET
               \/ open[Len(open)] = TOKEN_LBRACE /\ t[i + 1] = TOKEN_RBRACE
    THEN TRUE
    ELSE HasTrailingComma(t, i + 1, open)

Whitespace == {" ", "\t", "\r", "\n"}

AllWhitespace(inp) == \A i \in 1..Len(inp) : inp[i] \in Whitespace

\* main has returned / json_parser_parse_document has returned.
Exited == pc = "exit"

Parsed == pc \in {"parsed", "write", "exit"}

-----------------------------------------------------------------------------
(* C1..C4: what the parser accepts.                                        *)

\* C1: json_parser_parse_document returns a tree if and only if the text is a
\* document of the grammar (read leniently: the text starts with one).
C1_ParseIffGrammar ==
    Parsed => ((ret # NULL) <=> DocumentMatches(input))

\* C2: when the document's container is opened and the input ends before its
\* closing bracket, the parse fails and the invocation exits with code 1.
C2_UnclosedFails ==
    Exited /\ Unclosed(TokenTypes(input)) => ret = NULL /\ exit_code = 1

\* C3: a trailing comma is rejected: when, inside the document, a ',' of an
\* array is followed by ']' or a ',' of an object by '}', the parse fails.
C3_TrailingCommaRejected ==
    /\ Parsed /\ HasTrailingComma(TokenTypes(input), 1, <<>>) => ret = NULL
    /\ Exited /\ HasTrailingComma(TokenTypes(input), 1, <<>>) => exit_code = 1

\* C3's case: a text with a trailing comma has been parsed and main is done.
C3_Witness ==
    /\ Exited
    /\ HasTrailingComma(TokenTypes(input), 1, <<>>)
    /\ Len(heap) >= 3

\* C4: an empty or whitespace-only input fails: the first token is EOF, the
\* parse returns NULL, nothing is written and the exit code is 1.
C4_BlankInputFails ==
    AllWhitespace(input) =>
        /\ pc # "start" => parser.current_token.type = TOKEN_EOF
        /\ Parsed => ret = NULL
        /\ pc # "write"
        /\ Exited => exit_code = 1 /\ json_value = NULL /\ output = <<>>

\* C4's case: a non-empty whitespace-only input has been run to the end.
C4_Witness ==
    /\ Exited
    /\ AllWhitespace(input)
    /\ {"\n", " "} \subseteq {input[i] : i \in 1..Len(input)}

-----------------------------------------------------------------------------
(* C5: trailing content.                                                   *)

Range(seq) == {seq[i] : i \in 1..Len(seq)}

\* The lines the tokenizer prints on stderr.
LexDiagnostics ==
    {"Unterminated string", "Invalid number with leading zero", "Unexpected character"}

\* The first value was parsed and the token after it is not EOF.
TrailingContent ==
    /\ pc \in {"write", "exit"}
    /\ json_value # NULL
    /\ parser.current_token.type # TOKEN_EOF

\* The run r is a clean success (nothing trailing, nothing on stderr) that
\* wrote out.
CleanRunWriting(r, out) ==
    /\ r.exit_code = 0
    /\ r.parser.current_token.type = TOKEN_EOF
    /\ r.err = <<>>
    /\ r.output = out

-----------------------------------------------------------------------------
(* C6: the leading-zero rule.                                              *)

\* A cursor at position p of inp.
CursorAt(inp, p) == [parser_t(inp) EXCEPT !.pos = p]

\* Where the first token of inp starts.
FirstPos(inp) == tokenizer_skip_whitespace(parser_t(inp), inp).pos

\* The position after an optional '-' at p.
AfterSign(inp, p) == IF CharAt(inp, p) = "-" THEN p + 1 ELSE p

\* At p: an optional '-', then '0' and a digit right after it.
LeadingZeroAt(inp, p) ==
    /\ CharAt(inp, AfterSign(inp, p)) = "0"
    /\ isdigit(CharAt(inp, AfterSign(inp, p) + 1))

\* At p: an optional '-', then '0' and no digit after it.
ZeroAt(inp, p) ==
    /\ CharAt(inp, AfterSign(inp, p)) = "0"
    /\ ~isdigit(CharAt(inp, AfterSign(inp, p) + 1))

\* C6: where a literal starts with '0' (or '-0') and a digit, the tokenizer
\* answers TOKEN_ERROR, and a document that starts so fails with exit code 1;
\* '0' or '-0' with no digit after it is a NUMBER token, and a document that
\* starts so parses to a number and exits with code 0.
C6_LeadingZero ==
    /\ Exited =>
           \A p \in 0..(Len(input) - 1) :
               /\ LeadingZeroAt(input, p) =>
                      tokenizer_get_next_token(CursorAt(input, p), input).token.type
                          = TOKEN_ERROR
               /\ ZeroAt(input, p) /\ CharAt(input, p) \notin Whitespace =>
                      tokenizer_get_next_token(CursorAt(input, p), input).token.type
                          = TOKEN_NUMBER
    /\ Parsed /\ LeadingZeroAt(input, FirstPos(input)) => ret = NULL
    /\ Exited /\ LeadingZeroAt(input, FirstPos(input)) => exit_code = 1
    /\ Parsed /\ ZeroAt(input, FirstPos(input)) =>
           ret # NULL /\ heap[ret].type = JSON_NUMBER
    /\ Exited /\ ZeroAt(input, FirstPos(input)) => exit_code = 0

\* C6's case: a document that starts with '-0' and a digit has been run.
C6_Witness ==
    /\ Exited
    /\ LeadingZeroAt(input, FirstPos(input))
    /\ CharAt(input, FirstPos(input)) = "-"
    /\ "Invalid number with leading zero" \in Range(err)

-----------------------------------------------------------------------------
(* C7: the scenario {"a":1,"b":[true,false,null]}.                         *)

\* What the writer gives: the elements of the array are indented by 6.
ScenarioRendering ==
    <<"(", "j", "s", "o", "n", ":", "o", "b", "j", "e", "c", "t", "\n", " ",
      " ", "(", "j", "s", "o", "n", ":", "a", " ", "1", ")", "\n", " ", " ",
      "(", "j", "s", "o", "n", ":", "b", " ", "(", "j", "s", "o", "n", ":",
      "a", "r", "r", "a", "y", "\n", " ", " ", " ", " ", " ", " ", "#", "t",
      "\n", " ", " ", " ", " ", " ", " ", "#", "f", "\n", " ", " ", " ", " ",
      " ", " ", "n", "i", "l", ")", ")", ")">>

\* What the claim expects: the elements of the array indented by 4.
ScenarioRenderingClaimed ==
    <<"(", "j", "s", "o", "n", ":", "o", "b", "j", "e", "c", "t", "\n", " ",
      " ", "(", "j", "s", "o", "n", ":", "a", " ", "1", ")", "\n", " ", " ",
      "(", "j", "s", "o", "n", ":", "b", " ", "(", "j", "s", "o", "n", ":",
      "a", "r", "r", "a", "y", "\n", " ", " ", " ", " ", "#", "t", "\n", " ",
      " ", " ", " ", "#", "f", "\n", " ", " ", " ", " ", "n", "i", "l", ")",
      ")", ")">>

\* C7 as stated: the scenario renders with the array's elements indented by
\* 4 spaces.
C7_ScenarioIndentedBy4 ==
    Exited /\ input = Scenario =>
        output = HEADER_COMMENT \o ScenarioRenderingClaimed \o <<"\n">>

\* C7 as amended: the scenario renders as the lines '(json:object',
\* '  (json:a 1)', '  (json:b (json:array', then '#t', '#f' and 'nil)))'
\* each indented by 6 spaces.
C7_ScenarioIndentedBy6 ==
    Exited /\ input = Scenario =>
        /\ exit_code = 0
        /\ output = HEADER_COMMENT \o ScenarioRendering \o <<"\n">>

\* C7's case: the scenario has been converted.
C7_Witness == Exited /\ input = Scenario /\ output # <<>>

-----------------------------------------------------------------------------
(* The tree and the output, read back.                                     *)

RECURSIVE ListOf(_, _)
\* The nodes of a member list or of an element list, from node on.
ListOf(h, node) == IF node = NULL THEN <<>> ELSE <<node>> \o ListOf(h, h[node].next)

\* The body of the output: what follows the header, without the final
\* newline.
Body == SubSeq(output, Len(HEADER_COMMENT) + 1, Len(output) - 1)

RECURSIVE SpacesRun(_, _)
\* The number of spaces of text from position i on.
SpacesRun(text, i) ==
    IF i <= Len(text) /\ text[i] = " " THEN 1 + SpacesRun(text, i + 1) ELSE 0

\* The positions of the newlines of text.
Newlines(text) == {i \in 1..Len(text) : text[i] = "\n"}

\* The position of the k-th newline of text.
NewlineAt(text, k) ==
    CHOOSE i \in Newlines(text) : Cardinality({j \in Newlines(text) : j <= i}) = k

\* The indentation of each line of text, the first line left out.
LineIndents(text) ==
    [k \in 1..Cardinality(Newlines(text)) |-> SpacesRun(text, NewlineAt(text, k) + 1)]

RECURSIVE KeysOf(_, _)
RECURSIVE KeysOfMembers(_, _)
RECURSIVE KeysOfElements(_, _)
\* The keys of the tree at v, in pre-order.
KeysOf(h, v) ==
    IF v = NULL THEN <<>>
    ELSE CASE h[v].type = JSON_OBJECT -> KeysOfMembers(h, ListOf(h, h[v].data))
           [] h[v].type = JSON_ARRAY -> KeysOfElements(h, ListOf(h, h[v].data))
           [] OTHER -> <<>>

KeysOfMembers(h, ms) ==
    IF ms = <<>> THEN <<>>
    ELSE <<h[h[Head(ms)].key].text>>
         \o KeysOf(h, h[Head(ms)].value)
         \o KeysOfMembers(h, Tail(ms))

KeysOfElements(h, es) ==
    IF es = <<>> THEN <<>>
    ELSE KeysOf(h, h[Head(es)].value) \o KeysOfElements(h, Tail(es))

\* The characters that would break a key written raw into the output.
KeyBreakers == {" ", "\n", "\t", "\r", "(", ")", "\"", "\\", NUL}

\* No key of the tree at v holds such a character.
PlainKeys(h, v) ==
    \A i \in 1..Len(KeysOf(h, v)) :
        \A j \in 1..Len(KeysOf(h, v)[i]) : KeysOf(h, v)[i][j] \notin KeyBreakers

\* The invocation has written the tree at json_value.
Converted == Exited /\ exit_code = 0

-----------------------------------------------------------------------------
(* C8: indentation.                                                        *)

RECURSIVE ChildIndents(_, _, _, _)
RECURSIVE MemberIndents(_, _, _, _)
RECURSIVE ElementIndents(_, _, _, _)
\* The indentation of the lines of the children of the tree at v, in the
\* order they are written, when v is at depth and each child sits on a line
\* indented by 2 * (depth + 1); an element is one level deeper than its
\* array and a member's value memberStep levels deeper than its object.
ChildIndents(h, v, depth, memberStep) ==
    CASE h[v].type = JSON_OBJECT ->
             MemberIndents(h, ListOf(h, h[v].data), depth, memberStep)
      [] h[v].type = JSON_ARRAY ->
             ElementIndents(h, ListOf(h, h[v].data), depth, memberStep)
      [] OTHER -> <<>>

MemberIndents(h, ms, depth, memberStep) ==
    IF ms = <<>> THEN <<>>
    ELSE <<2 * (depth + 1)>>
         \o ChildIndents(h, h[Head(ms)].value, depth + memberStep, memberStep)
         \o MemberIndents(h, Tail(ms), depth, memberStep)

ElementIndents(h, es, depth, memberStep) ==
    IF es = <<>> THEN <<>>
    ELSE <<2 * (depth + 1)>>
         \o ChildIndents(h, h[Head(es)].value, depth + 1, memberStep)
         \o ElementIndents(h, Tail(es), depth, memberStep)

\* C8 as stated: the children of a container at nesting level n (the root
\* at 0) are on lines indented by 2 * (n + 1) spaces, whether the container
\* is the root, an element or the value of a member.
C8_IndentByNestingLevel ==
    Converted /\ PlainKeys(heap, json_value) =>
        LineIndents(Body) = ChildIndents(heap, json_value, 0, 1)

\* C8 as amended: the children of a container written at level d are on
\* lines indented by 2 * (d + 1) spaces, where d is 0 for the root, one more
\* than its array's level for an element, and two more than its object's
\* level for the value of a member.
C8_IndentByWriterLevel ==
    Converted /\ PlainKeys(heap, json_value) =>
        LineIndents(Body) = ChildIndents(heap, json_value, 0, 2)

\* C8's case: a document whose containers are member values of member
\* values has been written, with lines indented by 10 spaces and more.
C8_Witness ==
    /\ Converted
    /\ PlainKeys(heap, json_value)
    /\ \E i \in 1..Len(LineIndents(Body)) : LineIndents(Body)[i] >= 10
    /\ \E i \in 1..Len(LineIndents(Body)) : LineIndents(Body)[i] = 2

-----------------------------------------------------------------------------
(* C9: order and duplicate keys.                                           *)

\* One key or one scalar, of the source or of the tree.
Item(kind, text, number) == [kind |-> kind, text |-> text, number |-> number]

\* The last token of the document that starts at t[1]: the token itself for
\* a scalar, the close of the container, or the end where it is never closed.
DocLast(t) ==
    IF ~Opens(t[1]) THEN 1
    ELSE IF DocClose(t, 1, 0) = 0 THEN Len(t)
    ELSE DocClose(t, 1, 0)

RECURSIVE SourceTrace(_, _, _)
\* The keys and the scalars of the tokens toks[i..last], in source order.
SourceTrace(toks, i, last) ==
    IF i > last THEN <<>>
    ELSE (CASE toks[i].type = TOKEN_STRING /\ i < Len(toks)
                   /\ toks[i + 1].type = TOKEN_COLON ->
                   <<Item("key", toks[i].value, Zero)>>
            [] toks[i].type = TOKEN_STRING /\ ~(i < Len(toks)
                   /\ toks[i + 1].type = TOKEN_COLON) ->
                   <<Item("string", toks[i].value, Zero)>>
            [] toks[i].type = TOKEN_NUMBER ->
                   <<Item("number", <<>>, toks[i].number_value)>>
            [] toks[i].type = TOKEN_TRUE -> <<Item("true", <<>>, Zero)>>
            [] toks[i].type = TOKEN_FALSE -> <<Item("false", <<>>, Zero)>>
            [] toks[i].type = TOKEN_NULL -> <<Item("null", <<>>, Zero)>>
            [] OTHER -> <<>>)
         \o SourceTrace(toks, i + 1, last)

RECURSIVE SourceKeys(_, _, _, _, _)
\* The keys of the tokens toks[i..last] that are at most maxDepth containers
\* deep, d being the depth at i.
SourceKeys(toks, i, last, d, maxDepth) ==
    IF i > last THEN <<>>
    ELSE IF Opens(toks[i].type) THEN SourceKeys(toks, i + 1, last, d + 1, maxDepth)
    ELSE IF Closes(toks[i].type) THEN SourceKeys(toks, i + 1, last, d - 1, maxDepth)
    ELSE IF /\ toks[i].type = TOKEN_STRING
            /\ i < Len(toks)
            /\ toks[i + 1].type = TOKEN_COLON
            /\ d <= maxDepth
    THEN <<toks[i].value>> \o SourceKeys(toks, i + 1, last, d, maxDepth)
    ELSE SourceKeys(toks, i + 1, last, d, maxDepth)

RECURSIVE TreeTrace(_, _)
RECURSIVE MembersTrace(_, _)
RECURSIVE ElementsTrace(_, _)
\* The keys and the scalars of the tree at v, in the order of its lists.
TreeTrace(h, v) ==
    CASE h[v].type = JSON_OBJECT -> MembersTrace(h, ListOf(h, h[v].data))
      [] h[v].type = JSON_ARRAY -> ElementsTrace(h, ListOf(h, h[v].data))
      [] h[v].type = JSON_STRING -> <<Item("string", h[h[v].data].text, Zero)>>
      [] h[v].type = JSON_NUMBER -> <<Item("number", <<>>, h[v].data)>>
      [] h[v].type = JSON_BOOLEAN ->
             <<Item(IF h[v].data THEN "true" ELSE "false", <<>>, Zero)>>
      [] OTHER -> <<Item("null", <<>>, Zero)>>

MembersTrace(h, ms) ==
    IF ms = <<>> THEN <<>>
    ELSE <<Item("key", h[h[Head(ms)].key].text, Zero)>>
         \o TreeTrace(h, h[Head(ms)].value)
         \o MembersTrace(h, Tail(ms))

ElementsTrace(h, es) ==
    IF es = <<>> THEN <<>>
    ELSE TreeTrace(h, h[Head(es)].value) \o ElementsTrace(h, Tail(es))

\* The keys of the members of the object at v, in list order.
MemberKeys(h, v) ==
    [i \in 1..Len(ListOf(h, h[v].data)) |-> h[h[ListOf(h, h[v].data)[i]].key].text]

RECURSIVE NameAt(_, _)
\* The name written at position i of out: up to a space, a newline or ')'.
NameAt(out, i) ==
    IF i > Len(out) \/ out[i] \in {" ", "\n", ")"} THEN <<>>
    ELSE <<out[i]>> \o NameAt(out, i + 1)

\* Where line k of text starts, after its indentation (the first line is
\* line 0).
LineStart(text, k) ==
    IF k = 0 THEN 1
    ELSE NewlineAt(text, k) + 1 + SpacesRun(text, NewlineAt(text, k) + 1)

\* The key written at position i of out, if one is: the name after a
\* '(json:' is a key when a space ends it (the tags '(json:object' and
\* '(json:array' end with a newline or with ')').
KeyAt(out, i) ==
    IF /\ StartsWith(out, i - 1, HEADER_MEMBER)
       /\ i + Len(HEADER_MEMBER) + Len(NameAt(out, i + Len(HEADER_MEMBER))) <= Len(out)
       /\ out[i + Len(HEADER_MEMBER) + Len(NameAt(out, i + Len(HEADER_MEMBER)))] = " "
    THEN <<NameAt(out, i + Len(HEADER_MEMBER))>>
    ELSE <<>>

RECURSIVE OutputKeys(_, _)
\* The keys written in out from line k on: a member starts its line.
OutputKeys(out, k) ==
    IF k > Cardinality(Newlines(out)) THEN <<>>
    ELSE KeyAt(out, LineStart(out, k)) \o OutputKeys(out, k + 1)

\* C9: the keys and the scalars of the parsed tree are those of the source
\* in source order, duplicates included; the root object has one member per
\* member of the source, with the same keys in the same order; and the keys
\* of the output are those of the source in source order.
C9_SourceOrderKept ==
    /\ Parsed /\ ret # NULL =>
           /\ TreeTrace(heap, ret)
                  = SourceTrace(Tokens(input), 1, DocLast(TokenTypes(input)))
           /\ heap[ret].type = JSON_OBJECT =>
                  MemberKeys(heap, ret)
                      = SourceKeys(Tokens(input), 1, DocLast(TokenTypes(input)), 0, 1)
    /\ Converted /\ PlainKeys(heap, json_value) =>
           OutputKeys(Body, 0)
               = SourceKeys(Tokens(input), 1, DocLast(TokenTypes(input)), 0,
                            Len(input))

\* C9's case: an object with the same key twice has been written, and so has
\* an array of two elements inside it.
C9_Witness ==
    /\ Converted
    /\ heap[json_value].type = JSON_OBJECT
    /\ Len(MemberKeys(heap, json_value)) = 2
    /\ MemberKeys(heap, json_value)[1] = MemberKeys(heap, json_value)[2]
    /\ Len(TreeTrace(heap, json_value)) >= 4
    /\ Len(OutputKeys(Body, 0)) >= 2

-----------------------------------------------------------------------------
(* C10: release on failure.                                                *)

\* How many times the block at address a was handed to free().
TimesFreed(a) == Cardinality({i \in 1..Len(frees) : frees[i] = a})

\* json_parser_parse_document has returned NULL.
ParseFailed == pc \in {"parsed", "exit"} /\ ret = NULL

-----------------------------------------------------------------------------
(* C14: line and column.                                                   *)

\* The positions of text[1..pos] that hold a line feed.
LineFeedsBefore(text, pos) == {i \in 1..pos : text[i] = "\n"}

\* The position of the last line feed of text[1..pos], 0 when there is none.
LastLineFeed(text, pos) ==
    IF LineFeedsBefore(text, pos) = {} THEN 0
    ELSE CHOOSE i \in LineFeedsBefore(text, pos) :
             \A j \in LineFeedsBefore(text, pos) : j <= i

\* C14 as stated: once the tokenizer has run, parser.line is 1 plus the
\* number of line feeds in input[0..pos) and parser.column is 1 plus the
\* number of characters consumed since the last of them, characters inside
\* string literals included.
C14_PositionTracked ==
    pc # "start" =>
        /\ parser.line = 1 + Cardinality(LineFeedsBefore(input, parser.pos))
        /\ parser.column = 1 + parser.pos - LastLineFeed(input, parser.pos)

-----------------------------------------------------------------------------
(* C16: \uXXXX escapes.                                                    *)

\* inp is one string literal whose backslashes all start a \u escape and
\* which holds at least one of them, and no other character that the
\* tokenizer or the writer rewrites.
UnicodeEscapesOnly(inp) ==
    /\ Len(inp) >= 8
    /\ inp[1] = "\"" /\ inp[Len(inp)] = "\""
    /\ \E i \in 2..(Len(inp) - 1) : inp[i] = "\\"
    /\ \A i \in 2..(Len(inp) - 1) :
           /\ inp[i] \notin {"\"", "\n", "\r", "\t"}
           /\ inp[i] = "\\" => i + 5 <= Len(inp) - 1 /\ inp[i + 1] = "u"

\* C16 as stated: a string with \uXXXX escapes is written as it is in the
\* source, each escape as one backslash, 'u' and its four digits.
C16_UnicodeEscapeKept ==
    Converted /\ UnicodeEscapesOnly(input) => Body = input

-----------------------------------------------------------------------------
(* C20: the integer part of a number.                                      *)

\* The literal value has a digit right after its optional '-'.
HasIntegerDigit(value) ==
    /\ Len(value) >= 1
    /\ IF value[1] = "-" THEN Len(value) >= 2 /\ isdigit(value[2])
       ELSE isdigit(value[1])

\* C20 as stated: a NUMBER token has at least one digit in its integer
\* part, so a '-' with no digit after it never gives a NUMBER token.
C20_NumberHasIntegerDigit ==
    parser.current_token.type = TOKEN_NUMBER =>
        HasIntegerDigit(parser.current_token.value)

-----------------------------------------------------------------------------
(* C17: escaping.                                                          *)

\* What each character is to be written as.
EscapeOf(c) ==
    CASE c = "\"" -> <<"\\", "\"">>
      [] c = "\\" -> <<"\\", "\\">>
      [] c = "\n" -> <<"\\", "n">>
      [] c = "\r" -> <<"\\", "r">>
      [] c = "\t" -> <<"\\", "t">>
      [] OTHER -> <<c>>

RECURSIVE EscapedLen(_, _)
\* The length of what the first n characters of text are to be written as.
EscapedLen(text, n) ==
    IF n = 0 THEN 0 ELSE EscapedLen(text, n - 1) + Len(EscapeOf(text[n]))

\* out is text between double quotes with each character written as
\* EscapeOf gives, in order and with nothing else.
EscapedAs(text, out) ==
    /\ Len(out) = EscapedLen(text, Len(text)) + 2
    /\ out[1] = "\"" /\ out[Len(out)] = "\""
    /\ \A i \in 1..Len(text) :
           SubSeq(out, EscapedLen(text, i - 1) + 2, EscapedLen(text, i) + 1)
               = EscapeOf(text[i])

\* The texts of the strings and keys of the heap.
Texts == {heap[a].text : a \in {b \in 1..Len(heap) : heap[b].kind = "char"}}

\* C17: string_utils_escape_for_lisp puts the text between double quotes
\* and writes '"' as backslash-quote, backslash as two backslashes, line
\* feed as backslash-n, carriage return as backslash-r, tab as backslash-t
\* and every other character, control characters included, as it is; a
\* document that is one string is written so.
C17_EscapeForLisp ==
    /\ pc = "write" =>
           \A text \in Texts : EscapedAs(text, string_utils_escape_for_lisp(text))
    /\ Converted /\ heap[json_value].type = JSON_STRING =>
           EscapedAs(heap[heap[json_value].data].text, Body)

\* C17's case: a string with each of the five characters, and with control
\* characters that are copied, has been written.
C17_Witness ==
    /\ Converted
    /\ heap[json_value].type = JSON_STRING
    /\ {"\"", "\\", "\n", "\r", "\t", BS, "\f", "a"}
           \subseteq Range(heap[heap[json_value].data].text)

-----------------------------------------------------------------------------
(* C18: empty containers.                                                  *)

\* The levels a value is written at.
Levels == 0..8

RECURSIVE CountEmpty(_, _, _)
RECURSIVE CountEmptyIn(_, _, _)
\* The number of empty containers of the given type in the tree at v.
CountEmpty(h, v, type) ==
    IF h[v].type \notin {JSON_OBJECT, JSON_ARRAY} THEN 0
    ELSE IF h[v].data = NULL THEN (IF h[v].type = type THEN 1 ELSE 0)
    ELSE CountEmptyIn(h, ListOf(h, h[v].data), type)

CountEmptyIn(h, nodes, type) ==
    IF nodes = <<>> THEN 0
    ELSE CountEmpty(h, h[Head(nodes)].value, type) + CountEmptyIn(h, Tail(nodes), type)

\* How many times word is written in text.
Occurrences(text, word) ==
    Cardinality({i \in 0..(Len(text) - Len(word)) : StartsWith(text, i, word)})

\* The containers of the heap that have no member and no element.
EmptyContainers ==
    {v \in 1..Len(heap) : /\ heap[v].kind = "json_value_t"
                          /\ heap[v].type \in {JSON_OBJECT, JSON_ARRAY}
                          /\ heap[v].data = NULL}

\* C18: an empty object is written as '(json:object)' and an empty array as
\* '(json:array)' at every level, and the output holds one such text for
\* each empty container of the tree, whether it is the root, the value of a
\* member or an element.
C18_EmptyContainers ==
    /\ pc = "write" =>
           \A v \in EmptyContainers : \A level \in Levels :
               sexpr_writer_write_value(heap, v, level)
                   = (IF heap[v].type = JSON_OBJECT THEN HEADER_OBJECT ELSE HEADER_ARRAY)
                     \o <<")">>
    /\ Converted /\ Range(input) \cap {"(", ")"} = {} =>
           /\ Occurrences(Body, HEADER_OBJECT \o <<")">>)
                  = CountEmpty(heap, json_value, JSON_OBJECT)
           /\ Occurrences(Body, HEADER_ARRAY \o <<")">>)
                  = CountEmpty(heap, json_value, JSON_ARRAY)

\* C18's case: a tree with an empty object and an empty array inside a
\* container that is itself inside one has been written.
C18_Witness ==
    /\ Converted
    /\ CountEmpty(heap, json_value, JSON_OBJECT) >= 1
    /\ CountEmpty(heap, json_value, JSON_ARRAY) >= 1
    /\ \E i \in 1..Len(LineIndents(Body)) : LineIndents(Body)[i] >= 6

-----------------------------------------------------------------------------
(* C19: the bytes of the output.                                           *)

\* The comment line at the head of the output.
HeaderLine ==
    <<";", ";", " ", "J", "S", "O", "N", " ", "t", "o", " ", "S", "-", "e",
      "x", "p", "r", "e", "s", "s", "i", "o", "n", " ", "c", "o", "n", "v",
      "e", "r", "s", "i", "o", "n">>

\* C19: nothing is written before main writes; on success the output is the
\* comment line, a newline, an empty line, the root value written at level 0
\* and one newline, with nothing before, between or after.
C19_OutputBytes ==
    /\ ~Exited => output = <<>>
    /\ Converted =>
           output = HeaderLine \o <<"\n">> \o <<"\n">>
                    \o sexpr_writer_write_value(heap, json_value, 0) \o <<"\n">>

\* C19's case: a document of several lines has been written, with a warning
\* on stderr.
C19_Witness ==
    /\ Converted
    /\ TrailingContent
    /\ Cardinality(Newlines(output)) >= 5

-----------------------------------------------------------------------------
(* C13: nesting depth.                                                     *)

\* The number of containers open after the tokens t[1..i].
OpenAfter(t, i) ==
    Cardinality({j \in 1..i : Opens(t[j])}) - Cardinality({j \in 1..i : Closes(t[j])})

\* The deepest nesting the tokens t reach.
NestingDepth(t) ==
    CHOOSE d \in 0..Len(t) :
        /\ \A i \in 1..Len(t) : OpenAfter(t, i) <= d
        /\ d = 0 \/ \E i \in 1..Len(t) : OpenAfter(t, i) = d

\* The number of calls of json_parser_parse_object and json_parser_parse_array
\* that are open.
OpenContainers ==
    Cardinality({i \in 1..Len(stack) : stack[i].fn # "json_parser_parse_value"})

\* C13 as stated: the parser never has more than MAX_DEPTH containers open,
\* and a document that nests deeper than MAX_DEPTH fails.
C13_DepthCeiling ==
    /\ OpenContainers <= MAX_DEPTH
    /\ Parsed /\ NestingDepth(TokenTypes(input)) > MAX_DEPTH => ret = NULL

-----------------------------------------------------------------------------
(* C15: whitespace between tokens.                                         *)

RECURSIVE LexSpans(_, _)
\* The token r found from the cursor p: where it starts, where it ends and
\* its type; then the tokens after it, unless it is an EOF or ERROR token.
SpanFrom(p, r, inp) ==
    <<[from |-> tokenizer_skip_whitespace(p, inp).pos, to |-> r.parser.pos,
       type |-> r.token.type]>>
    \o (IF r.token.type \in {TOKEN_EOF, TOKEN_ERROR} THEN <<>>
        ELSE LexSpans(r.parser, inp))

LexSpans(p, inp) == SpanFrom(p, tokenizer_get_next_token(p, inp), inp)

Spans(inp) == LexSpans(parser_t(inp), inp)

\* Where token k of spans ends: the start of the text for k = 0.
SpanEnd(spans, k) == IF k = 0 THEN 0 ELSE spans[k].to

\* The whitespace before token k + 1: the indices of its characters.
Gap(spans, k) == (SpanEnd(spans, k) + 1)..(spans[k + 1].from)

\* The text inp without its character i, and with w put in after its first
\* pos characters.
Without(inp, i) == SubSeq(inp, 1, i - 1) \o SubSeq(inp, i + 1, Len(inp))

InsertedAt(inp, pos, w) == SubSeq(inp, 1, pos) \o <<w>> \o SubSeq(inp, pos + 1, Len(inp))

\* The run r ends as this one has: same exit code, same tree, same output.
SameOutcome(r) ==
    /\ r.exit_code = exit_code
    /\ r.output = output
    /\ (r.json_value = NULL) = (json_value = NULL)
    /\ json_value # NULL =>
           TreeTrace(r.heap, r.json_value) = TreeTrace(heap, json_value)

\* C15 as stated: taking a
\* whitespace character out from between two tokens (or from before the
\* first) never changes the outcome.
C15_WhitespaceRemovable ==
    Exited =>
        \A k \in 0..(Len(Spans(input)) - 1) : \A i \in Gap(Spans(input), k) :
            SameOutcome(main(Without(input, i)))

\* C15 as amended: putting a whitespace character
\* in after a token or before the first never changes the outcome; taking one out does not either when
\* the token before it is not a NUMBER token or other whitespace remains in
\* its place.
C15_WhitespaceInsignificant ==
    Exited =>
        \A k \in 0..(Len(Spans(input)) - 1) :
            /\ \A w \in Whitespace :
                   SameOutcome(main(InsertedAt(input, SpanEnd(Spans(input), k), w)))
            /\ (k = 0 \/ Spans(input)[k].type # TOKEN_NUMBER
                      \/ Cardinality(Gap(Spans(input), k)) >= 2) =>
                   \A i \in Gap(Spans(input), k) :
                       SameOutcome(main(Without(input, i)))

\* C15's case: a document with whitespace between its tokens, more than one
\* character of it after a number, has been written.
C15_Witness ==
    /\ Converted
    /\ \E k \in 1..(Len(Spans(input)) - 1) :
           /\ Spans(input)[k].type = TOKEN_NUMBER
           /\ Cardinality(Gap(Spans(input), k)) >= 2
    /\ \E k \in 1..(Len(Spans(input)) - 1) :
           /\ Spans(input)[k].type = TOKEN_STRING
           /\ Cardinality(Gap(Spans(input), k)) >= 1

-----------------------------------------------------------------------------
(* C11, C12: the invocation as a whole (CliSpec).                          *)

\* C11: nothing is written to the output and no output file is opened before
\* the parse has succeeded, and an invocation that fails leaves the output
\* empty and the output file unopened.
C11_NoOutputUnlessParsed ==
    /\ output # <<>> \/ opened # <<>> => json_string # NULL /\ json_value # NULL
    /\ Exited /\ exit_code # 0 => output = <<>> /\ opened = <<>>

\* C11's cases: with -o naming a file that could be opened, the invocation has
\* failed on an unclosed string read from the input file.
C11_Witness ==
    /\ Exited
    /\ exit_code = 1
    /\ output_filename \in fs.writable
    /\ input_filename \in fs.readable
    /\ json_string # NULL
    /\ TokenTypes(input) = <<TOKEN_ERROR>>
    /\ input # <<>> /\ input[1] = "\""

\* An argument that starts with '-' and is none of -h, --help, -p, --pretty, -o.
UnknownFlag(arg) ==
    /\ arg[1] = "-"
    /\ arg \notin {OPT_H, OPT_HELP, OPT_P, OPT_PRETTY, OPT_O}

\* The output has taken the header, the rendering of the tree and a newline.
Written ==
    /\ json_value # NULL
    /\ output = HEADER_COMMENT \o sexpr_writer_write_value(heap, json_value, 0)
                               \o <<"\n">>

\* C12: main returns 0 exactly when the input was read, the parse succeeded
\* and the output was written, and 1 otherwise; with an unknown flag among the
\* arguments it returns 1 and no input is read.
C12_ExitCodeTellsSuccess ==
    Exited =>
        /\ exit_code \in {0, 1}
        /\ exit_code = 0 <=> json_string # NULL /\ json_value # NULL /\ Written
        /\ (\E i \in 2..Len(argv) : UnknownFlag(argv[i])) =>
               exit_code = 1 /\ json_string = NULL

-----------------------------------------------------------------------------
(* C21: keyword tokens.                                                    *)

\* The characters that end a word: whitespace, punctuation and the quote.
Delimiters == Whitespace \cup {"{", "}", "[", "]", ":", ",", "\""}

\* The word of inp that starts after its first pos characters: the characters
\* up to the next delimiter or the end of the text.
WordEnd(inp, pos) ==
    IF \E i \in (pos + 1)..Len(inp) : inp[i] \in Delimiters
    THEN (CHOOSE i \in (pos + 1)..Len(inp) :
              /\ inp[i] \in Delimiters
              /\ \A j \in (pos + 1)..(i - 1) : inp[j] \notin Delimiters) - 1
    ELSE Len(inp)

WordAt(inp, pos) == SubSeq(inp, pos + 1, WordEnd(inp, pos))

\* The token type of a keyword, TOKEN_ERROR for any other word.
KeywordType(word) ==
    CASE word = <<"t", "r", "u", "e">> -> TOKEN_TRUE
      [] word = <<"f", "a", "l", "s", "e">> -> TOKEN_FALSE
      [] word = <<"n", "u", "l", "l">> -> TOKEN_NULL
      [] OTHER -> TOKEN_ERROR

\* The tokens of the input that start with 't', 'f' or 'n'.
KeywordSpans ==
    {k \in 1..Len(Spans(input)) :
        /\ Spans(input)[k].from < Len(input)
        /\ input[Spans(input)[k].from + 1] \in {"t", "f", "n"}}

\* C21: a token that starts with 't', 'f' or 'n' is the keyword token of the
\* word at the cursor when that word is true, false or null, and otherwise a
\* TOKEN_ERROR that leaves the cursor where the word starts.
C21_KeywordExact ==
    Exited =>
        \A k \in KeywordSpans :
            /\ Spans(input)[k].type = KeywordType(WordAt(input, Spans(input)[k].from))
            /\ Spans(input)[k].type = TOKEN_ERROR =>
                   Spans(input)[k].to = Spans(input)[k].from

-----------------------------------------------------------------------------
(* C22: where the closing parentheses go.                                  *)

\* No key of the tree at v holds a line feed.
KeysWithoutNewline(h, v) ==
    \A i \in 1..Len(KeysOf(h, v)) : "\n" \notin Range(KeysOf(h, v)[i])

\* Where the line that follows the newline at position i of text starts,
\* after its indentation.
AfterIndent(text, i) == i + 1 + SpacesRun(text, i + 1)

\* C22: in the rendering of a tree whose keys hold no line feed, every
\* newline is followed by indentation and then by a character that is
\* neither ')' nor a newline, so no ')' stands on a line of its own and the
\* rendering does not end with a newline.
C22_CloserNeverAlone ==
    Converted /\ KeysWithoutNewline(heap, json_value) =>
        \A i \in Newlines(Body) :
            /\ SpacesRun(Body, i + 1) >= SPACES_PER_LEVEL
            /\ AfterIndent(Body, i) <= Len(Body)
            /\ Body[AfterIndent(Body, i)] \notin {")", "\n"}

\* C22's case: a tree with a container inside a container has been written,
\* its last line ends with the ')' of both.
C22_Witness ==
    /\ Converted
    /\ KeysWithoutNewline(heap, json_value)
    /\ Cardinality(Newlines(Body)) >= 3
    /\ \E i \in 1..Len(LineIndents(Body)) : LineIndents(Body)[i] >= 2 * SPACES_PER_LEVEL
    /\ Len(Body) >= 2
    /\ Body[Len(Body)] = ")"
    /\ Body[Len(Body) - 1] = ")"

-----------------------------------------------------------------------------
(* C23: the cursor.                                                        *)

\* The call of tokenizer_get_next_token that took the cursor p to r keeps
\* the cursor in order: pos has not decreased and is within the text, a token
\* other than EOF and ERROR has moved it, and after EOF the next call answers
\* EOF again and leaves pos, line and column as they are.
CursorKept(p, r) ==
    /\ r.parser.pos >= p.pos
    /\ r.parser.pos <= p.length
    /\ r.parser.length = p.length
    /\ r.token.type \notin {TOKEN_EOF, TOKEN_ERROR} => r.parser.pos > p.pos
    /\ r.token.type = TOKEN_EOF =>
           /\ tokenizer_get_next_token(r.parser, input).token.type = TOKEN_EOF
           /\ tokenizer_get_next_token(r.parser, input).parser = r.parser

\* Every call of tokenizer_get_next_token, from any position of the input,
\* keeps the cursor in order.
CallsKeepCursor ==
    \A pos \in 0..Len(input) :
        CursorKept(CursorAt(input, pos),
                   tokenizer_get_next_token(CursorAt(input, pos), input))

\* C23: parser.pos is always between 0 and length, no step of the program
\* decreases it, and every call of tokenizer_get_next_token keeps the cursor
\* in order.
C23_CursorInvariant ==
    /\ [](/\ 0 <= parser.pos
          /\ parser.pos <= parser.length
          /\ parser.length = Len(input)
          /\ pc = "document" => CallsKeepCursor)
    /\ [][parser'.pos >= parser.pos]_vars

\* C23's case: the parser has read several tokens and whitespace up to the
\* end of the text, and EOF is the current token.
C23_Witness ==
    /\ Exited
    /\ parser.current_token.type = TOKEN_EOF
    /\ parser.pos = parser.length
    /\ Len(Spans(input)) >= 6
    /\ input[Len(input)] \in Whitespace

-----------------------------------------------------------------------------
(* C24: the token buffer.                                                  *)

\* How many backslashes stand in a row right before the character i of inp.
BackslashRun(inp, i) ==
    Cardinality({j \in 1..(i - 1) : \A k \in j..(i - 1) : inp[k] = "\\"})

\* The character i of inp is the second of an escape.
EscapedChar(inp, i) == BackslashRun(inp, i) % 2 = 1

\* The quote that opens the string literal closed by the quote at close.
OpeningQuote(inp, close) ==
    CHOOSE i \in 1..(close - 1) :
        /\ inp[i] = "\""
        /\ ~EscapedChar(inp, i)
        /\ \A j \in (i + 1)..(close - 1) : inp[j] = "\"" => EscapedChar(inp, j)

RecognisedEscapes == {"\"", "\\", "/", "b", "f", "n", "r", "t"}

\* The length of the payload of the literal inp[open..close]: an escape the
\* tokenizer recognises stands for one character, any other character of
\* the literal for itself.
DecodedLength(inp, open, close) ==
    (close - open - 1)
    - Cardinality({i \in (open + 1)..(close - 2) :
                       /\ inp[i] = "\\"
                       /\ ~EscapedChar(inp, i)
                       /\ inp[i + 1] \in RecognisedEscapes})

\* The string token of the literal inp[open..close] holds all of it.
CompletePayload(tok, inp, open, close) ==
    /\ Len(tok.value) = DecodedLength(inp, open, close)
    /\ (\A i \in (open + 1)..(close - 1) : inp[i] # "\\") =>
           tok.value = SubSeq(inp, open + 1, close - 1)

\* A tokenizer function has just returned a string token.
StringReturned == pc \in {"token", "lexed"} /\ token.type = TOKEN_STRING

\* C24: on every path of the tokenizer the write index into token.value
\* (the terminating NUL included) never exceeds MAX_TOKEN_SIZE - 1, and a
\* string literal yields either a STRING token with its complete decoded
\* payload, of at most MAX_TOKEN_SIZE - 2 characters, or TOKEN_ERROR: a
\* STRING token is never silently truncated.
C24_TokenBufferSafe ==
    /\ [](/\ Len(token.value) <= MAX_TOKEN_SIZE - 1
          /\ Len(parser.current_token.value) <= MAX_TOKEN_SIZE - 1
          /\ StringReturned =>
                 /\ parser.current_token = token
                 /\ parser.pos >= 2
                 /\ input[parser.pos] = "\""
                 /\ Len(token.value) <= MAX_TOKEN_SIZE - 2
                 /\ CompletePayload(token, input,
                                    OpeningQuote(input, parser.pos), parser.pos))
    /\ [][pc = "string" /\ pc' # "string" =>
              token'.type \in {TOKEN_STRING, TOKEN_ERROR}]_vars

\* A string literal of exactly MAX_TOKEN_SIZE - 2 characters of payload has
\* been returned as a STRING token.
C24_Witness ==
    /\ StringReturned
    /\ Len(token.value) = MAX_TOKEN_SIZE - 2

-----------------------------------------------------------------------------
(* C25: parsing terminates.                                                *)

\* More steps than the parser takes on the text inp.
StepBound(inp) == 4 * Len(inp) + 8

RECURSIVE IterationEnd(_, _, _)
\* Where the iteration that s is in ends, for the loop of the call that is
\* depth calls deep: back at the test of that loop, or the call has
\* returned.  After fuel steps the search is given up.
IterationEnd(s, depth, fuel) ==
    IF \/ fuel = 0
       \/ Len(s.stack) < depth
       \/ Len(s.stack) = depth /\ Top(s).at = "loop"
    THEN s
    ELSE IterationEnd(Step(s), depth, fuel - 1)

\* The parser is at the test of the member loop or of the element loop.
AtLoopTest == pc = "parse" /\ stack # <<>> /\ Top(State).at = "loop"

\* The iteration from s to e has returned from the call, or is back at the
\* loop test with the cursor further on.
IterationProgress(s, e) ==
    \/ Len(e.stack) < Len(s.stack)
    \/ /\ Len(e.stack) = Len(s.stack)
       /\ Top(e).at = "loop"
       /\ e.parser.pos > s.parser.pos

RECURSIVE ParseEnd(_, _)
\* Where json_parser_parse_document, running in s, has returned.  After
\* fuel steps the search is given up.
ParseEnd(s, fuel) ==
    IF fuel = 0 \/ s.pc \notin {"document", "parse"}
    THEN s
    ELSE ParseEnd(Step(s), fuel - 1)

\* In s json_parser_parse_document has returned, a tree or NULL.
ParseReturnedIn(s) ==
    /\ s.pc = "parsed"
    /\ s.stack = <<>>
    /\ s.ret # NULL => s.heap[s.ret].kind = "json_value_t"

ParseReturned == ParseReturnedIn(State)

\* C25: parsing always terminates: json_parser_parse_document returns (a
\* tree or NULL) after finitely many steps, at most StepBound(input) of
\* them, and every iteration of the member loop of json_parser_parse_object
\* and of the element loop of json_parser_parse_array either returns or
\* consumes at least one token, the cursor pos moving on.  The steps the
\* program takes are those that Step counts.
C25_ParseTerminates ==
    /\ [](pc \in {"document", "parse"} =>
              ParseReturnedIn(ParseEnd(State, StepBound(input))))
    /\ [](AtLoopTest =>
              IterationProgress(State, IterationEnd(Step(State), Len(stack),
                                                    StepBound(input))))
    /\ [][State' = Step(State)]_vars

\* The parser has returned the tree of an object of two members or more
\* that holds an array of two elements or more: both loops have iterated.
C25_Witness ==
    /\ ParseReturned
    /\ ret # NULL
    /\ heap[ret].type = JSON_OBJECT
    /\ Len(ListOf(heap, heap[ret].data)) >= 2
    /\ \E a \in 1..Len(heap) :
           /\ heap[a].kind = "json_value_t"
           /\ heap[a].type = JSON_ARRAY
           /\ Len(ListOf(heap, heap[a].data)) >= 2

=============================================================================
